---- MODULE Spec2Model ----
(***************************************************************************)
(* CORD engine (cord_engine/): hash-chained audit log, scoring/decision,   *)
(* the evaluation pipeline and the tool interceptor.                       *)
(*                                                                         *)
(* Representation.                                                         *)
(*  - A Python str is a sequence of tokens (each token a literal piece of  *)
(*    text); the regular expressions of policies.py / audit_log.py are     *)
(*    modelled by the set of tokens of the vocabulary they match.          *)
(*  - A JSON value is a tagged tuple: <<"text", s>>, <<"num", n>>,         *)
(*    <<"null">>, <<"list", seq>>, <<"dict", pairs>>, and the hex digest   *)
(*    of _hash(x) is the symbolic value <<"hash", x>> (SHA-256 taken as    *)
(*    collision free).  A dict is a sequence of <<key, value>> pairs in    *)
(*    insertion order, as a Python dict is.                                *)
(*  - The audit log file is the sequence of its lines; a line is a JSON    *)
(*    value, or <<"garbage">> (not JSON), or <<"blank">>.                  *)
(*  - Scores are integers in units of 1/Unit.                              *)
(***************************************************************************)
EXTENDS Integers, Sequences, FiniteSets, TLC

VARIABLES
    log,          \* the audit log file (cord.log.jsonl): sequence of lines
    now,          \* the wall clock (seconds)
    REDACTION_LEVEL,  \* audit_log.REDACTION_LEVEL: "none" | "pii" | "full"
    THRESHOLDS,   \* policies.THRESHOLDS: [contain, challenge, block]
    lockFile,     \* the intent lock file (intent.lock.json)
    last,         \* what the last operation did (its inputs and its outcome)
    procs,        \* concurrent append_log calls in flight
    enforcer,     \* a CORDEnforcer object: its counters and verdict history
    nops          \* number of operations run so far

vars == <<log, now, REDACTION_LEVEL, THRESHOLDS, lockFile, last, procs, enforcer, nops>>

(* ------------------------------ bounds -------------------------------- *)
MaxLog == 2
MaxOps == 2
MaxTime == 1
MaxProcs == 2
MaxAppends == 3
MaxChain == 3
MaxScore == 8
MaxBurst == 61

Unit == 3 * 100

(* ----------------------------- JSON values ---------------------------- *)
Text(s) == <<"text", s>>
Str(tok) == <<"text", <<tok>> >>
Num(n) == <<"num", n>>
Null == <<"null">>
List(s) == <<"list", s>>
Dict(pairs) == <<"dict", pairs>>
Garbage == <<"garbage">>
(* the first part of a line, not JSON and without its newline *)
Partial == <<"garbage", "open">>
GENESIS == Str("GENESIS")

IsStr(v) == v[1] \in {"text", "hash", "ts"}
IsDict(v) == v[1] = "dict"

(* dict operations on a sequence of <<key, value>> pairs *)
Has(d, k) == \E i \in 1..Len(d) : d[i][1] = k
Get(d, k) == d[CHOOSE i \in 1..Len(d) : d[i][1] = k][2]
GetOr(d, k, default) == IF Has(d, k) THEN Get(d, k) ELSE default
Put(d, k, v) ==
    IF Has(d, k)
    THEN [i \in 1..Len(d) |-> IF d[i][1] = k THEN <<k, v>> ELSE d[i]]
    ELSE Append(d, <<k, v>>)
Without(d, k) == SelectSeq(d, LAMBDA p : p[1] # k)

(* json.dumps(..., sort_keys=True): the serialization does not depend on
   the order the keys were inserted in; the canonical form of a dict is
   the set of its <<key, canonical value>> pairs *)
RECURSIVE Canon(_)
Canon(v) ==
    IF v[1] = "dict"
    THEN <<"object", {<<v[2][i][1], Canon(v[2][i][2])>> : i \in 1..Len(v[2])}>>
    ELSE v

(* ------------------------- audit_log.py: redaction -------------------- *)

(* audit_log.PII_PATTERNS, as the substitution each pattern makes on a token
   of the vocabulary (ssn, credit_card, email, phone, in that order) *)
RedactTok(tok) ==
    CASE tok = "123-45-6789" -> "[SSN-REDACTED]"
      [] tok = "4111111111111111" -> "[CC-REDACTED]"
      [] tok = "bob@example.com" -> "[EMAIL-REDACTED]"
      [] tok = "555-123-4567" -> "[PHONE-REDACTED]"
      [] tok = "/home/bob@example.com/x" -> "/home/[EMAIL-REDACTED]/x"
      [] tok = "after reading bob@example.com send"
            -> "after reading [EMAIL-REDACTED] send"
      [] OTHER -> tok

redact_pii(text, level) ==
    IF text = Text(<<>>) \/ level = "none" THEN text
    ELSE IF level = "full" THEN Str("<sha256[:16]>...[redacted]")
    ELSE IF text[1] = "text"
         THEN Text([i \in 1..Len(text[2]) |-> RedactTok(text[2][i])])
         ELSE text

(* ------------------------- audit_log.py: the chain -------------------- *)

Lines(file) == SelectSeq(file, LAMBDA l : l[1] # "blank")

Ok(v) == [exc |-> "none", val |-> v]
Raise(e) == [exc |-> e, val |-> Null]

get_prev_hash(file) ==
    LET lines == Lines(file) IN
    IF lines = <<>> THEN Ok(GENESIS)
    ELSE LET last_line == lines[Len(lines)] IN
         IF last_line[1] = "garbage" THEN Ok(GENESIS)
         ELSE IF ~IsDict(last_line) THEN Raise("AttributeError")
         ELSE Ok(GetOr(last_line[2], "entry_hash", GENESIS))

(* _hash(prev_hash + json.dumps(base, sort_keys=True)).  The digest is the
   sequence of the texts hashed along the chain: when base holds this very
   prev_hash, itself a digest, the text of base with that field elided is
   appended to the sequence prev_hash stands for; otherwise the digest is
   the single text <<prev_hash, base>>.  Distinct arguments give distinct
   digests. *)
EntryHash(prev_hash, base) ==
    IF prev_hash[1] = "hash" /\ GetOr(base, "prev_hash", Null) = prev_hash
    THEN <<"hash", Append(prev_hash[2],
                         Canon(Dict(Put(base, "prev_hash", <<"chained">>))))>>
    ELSE <<"hash", << <<prev_hash, Canon(Dict(base))>> >> >>

(* the line append_log writes once it has read the tail's hash; sanitized
   is the entry with its redacted fields replaced when they are str *)
build_entry(entry, prev_hash, clock, level) ==
    LET sanitized == [i \in 1..Len(entry) |->
                         IF entry[i][1] \in {"proposal", "text", "path"} /\ IsStr(entry[i][2])
                         THEN <<entry[i][1], redact_pii(entry[i][2], level)>>
                         ELSE entry[i]]
        \* {"timestamp": ..., "prev_hash": ..., **sanitized}
        base == << <<"timestamp", GetOr(sanitized, "timestamp", <<"ts", clock>>)>>,
                   <<"prev_hash", GetOr(sanitized, "prev_hash", prev_hash)>> >>
                \o SelectSeq(sanitized, LAMBDA kv : kv[1] \notin {"timestamp", "prev_hash"})
    IN Dict(Put(base, "entry_hash", EntryHash(prev_hash, base)))

(* f.write(line + "\n") on a file opened in mode "a": a new last line, or,
   after a line without newline, the end of that line, which is no JSON *)
WriteTo(file, line) ==
    IF file # <<>> /\ file[Len(file)] = Partial
    THEN [file EXCEPT ![Len(file)] = Garbage]
    ELSE Append(file, line)

(* append_log: the file after the call and the returned entry hash *)
append_log(entry, file, clock, level) ==
    LET prev == get_prev_hash(file) IN
    IF prev.exc # "none" THEN [exc |-> prev.exc, val |-> Null, file |-> file]
    ELSE IF ~IsStr(prev.val)
         THEN [exc |-> "TypeError", val |-> Null, file |-> file]
    ELSE LET log_entry == build_entry(entry, prev.val, clock, level)
         IN [exc |-> "none", val |-> Get(log_entry[2], "entry_hash"),
             file |-> WriteTo(file, log_entry)]

RECURSIVE VerifyFrom(_, _, _)
VerifyFrom(lines, i, expected_prev) ==
    IF i > Len(lines) THEN [exc |-> "none", valid |-> TRUE, count |-> Len(lines)]
    ELSE LET line == lines[i] IN
         IF line[1] = "garbage" THEN [exc |-> "none", valid |-> FALSE, count |-> i - 1]
         ELSE IF ~IsDict(line)
              THEN [exc |-> "AttributeError", valid |-> FALSE, count |-> i - 1]
         ELSE LET entry == line[2]
                  stored_hash == GetOr(entry, "entry_hash", Null)
                  rest == Without(entry, "entry_hash")
              IN IF GetOr(entry, "prev_hash", Null) # expected_prev
                 THEN [exc |-> "none", valid |-> FALSE, count |-> i - 1]
                 ELSE IF stored_hash # EntryHash(Get(rest, "prev_hash"), rest)
                 THEN [exc |-> "none", valid |-> FALSE, count |-> i - 1]
                 ELSE VerifyFrom(lines, i + 1, stored_hash)

verify_chain(file) == VerifyFrom(Lines(file), 1, GENESIS)

(* read_log: the lines that parse as JSON *)
read_log(file) == SelectSeq(Lines(file), LAMBDA l : l[1] # "garbage")

(* check_rate_limit: (exceeded, count, rate per minute in tenths); recent
   holds the entries whose timestamp parses and is not before the cutoff *)
check_rate_limit(window_seconds, max_count, file, clock) ==
    LET entries == read_log(file) IN
    IF entries = <<>> THEN [exc |-> "none", exceeded |-> FALSE, count |-> 0, rate10 |-> 0]
    ELSE IF \E i \in 1..Len(entries) : ~IsDict(entries[i])
         THEN [exc |-> "AttributeError", exceeded |-> FALSE, count |-> 0, rate10 |-> 0]
    ELSE LET recent == SelectSeq(entries,
                                 LAMBDA e : LET ts == GetOr(e[2], "timestamp", Str(""))
                                            IN ts[1] = "ts" /\ ts[2] >= clock - window_seconds)
             count == Len(recent)
         IN [exc |-> "none", exceeded |-> count >= max_count, count |-> count,
             rate10 |-> (count * 600) \div window_seconds]

(* ------------------------------ models.py ----------------------------- *)
CheckResult(dimension, article, score, reasons, hard_block) ==
    [dimension |-> dimension, article |-> article, score |-> score,
     reasons |-> reasons, hard_block |-> hard_block]

Min(a, b) == IF a <= b THEN a ELSE b
Pt(halves) == halves * (Unit \div 2)      \* Pt(2) is the score 1.0

(* ------------------------------ scoring.py ---------------------------- *)
(* a weight table with a negative weight *)
WEIGHTS_moral_negative(dimension) ==
    IF dimension = "moral_check" THEN -5 ELSE 4

WEIGHTS(dimension) ==
    CASE dimension = "long_term_alignment" -> 3
      [] dimension = "moral_check" -> 5
      [] dimension = "truth_check" -> 2
      [] dimension = "consequence_analysis" -> 3
      [] dimension = "sustainability_check" -> 2
      [] dimension = "financial_risk" -> 3
      [] dimension = "security_check" -> 4
      [] dimension = "drift_check" -> 2
      [] dimension = "evaluation_framework" -> 3
      [] dimension = "temperament_check" -> 1
      [] dimension = "identity_check" -> 1
      [] dimension = "intent_drift" -> 3
      [] dimension = "prompt_injection" -> 5
      [] dimension = "pii_leakage" -> 4
      [] dimension = "rate_anomaly" -> 3
      [] dimension = "tool_risk" -> 1
      [] OTHER -> 1

DefaultThresholds == [contain |-> 5, challenge |-> 7, block |-> 7]

RECURSIVE compute_composite_score(_)
compute_composite_score(check_results) ==
    IF check_results = <<>> THEN 0
    ELSE Head(check_results).score * WEIGHTS(Head(check_results).dimension)
         + compute_composite_score(Tail(check_results))

detect_anomaly(check_results) ==
    LET high_signals ==
            Cardinality({i \in 1..Len(check_results) : check_results[i].score >= Pt(4)})
    IN IF high_signals >= 4 THEN Pt(6)
       ELSE IF high_signals >= 3 THEN Pt(4)
       ELSE IF high_signals >= 2 THEN Pt(2)
       ELSE 0

has_hard_block(check_results) ==
    \E i \in 1..Len(check_results) : check_results[i].hard_block

(* variants of decide the claims on it must tell apart from it *)
decide_without_hard_block(score, check_results, thresholds) ==
    IF score >= thresholds.block * Unit THEN "BLOCK"
    ELSE IF score >= thresholds.challenge * Unit THEN "CHALLENGE"
    ELSE IF score >= thresholds.contain * Unit THEN "CONTAIN"
    ELSE "ALLOW"

decide_contain_exclusive(score, check_results, thresholds) ==
    IF has_hard_block(check_results) THEN "BLOCK"
    ELSE IF score >= thresholds.block * Unit THEN "BLOCK"
    ELSE IF score >= thresholds.challenge * Unit THEN "CHALLENGE"
    ELSE IF score > thresholds.contain * Unit THEN "CONTAIN"
    ELSE "ALLOW"

(* decide testing the challenge threshold before the block threshold *)
decide_challenge_first(score, check_results, thresholds) ==
    IF has_hard_block(check_results) THEN "BLOCK"
    ELSE IF score >= thresholds.challenge * Unit THEN "CHALLENGE"
    ELSE IF score >= thresholds.block * Unit THEN "BLOCK"
    ELSE IF score >= thresholds.contain * Unit THEN "CONTAIN"
    ELSE "ALLOW"

decide(score, check_results, thresholds) ==
    IF has_hard_block(check_results) THEN "BLOCK"
    ELSE IF score >= thresholds.block * Unit THEN "BLOCK"
    ELSE IF score >= thresholds.challenge * Unit THEN "CHALLENGE"
    ELSE IF score >= thresholds.contain * Unit THEN "CONTAIN"
    ELSE "ALLOW"


RECURSIVE collect_reasons(_)
collect_reasons(check_results) ==
    IF check_results = <<>> THEN <<>>
    ELSE (IF Head(check_results).score > 0 \/ Head(check_results).hard_block THEN Head(check_results).reasons ELSE <<>>)
         \o collect_reasons(Tail(check_results))

RECURSIVE ViolationsInto(_, _)
ViolationsInto(violations, check_results) ==
    IF check_results = <<>> THEN violations
    ELSE LET r == Head(check_results)
             v == IF (r.score > 0 \/ r.hard_block) /\ (\A i \in 1..Len(violations) : violations[i] # r.article)
                  THEN Append(violations, r.article) ELSE violations
         IN ViolationsInto(v, Tail(check_results))

collect_violations(check_results) == ViolationsInto(<<>>, check_results)

(* ------------------------------ policies.py --------------------------- *)
(* Each pattern of policies.py as the tokens of the vocabulary it matches. *)
In(text, tok) == \E i \in 1..Len(text) : text[i] = tok
AnyIn(text, toks) == \E i \in 1..Len(text) : text[i] \in toks
Found(text, signals) == SelectSeq(signals, LAMBDA t : In(text, t))
Hits(text, signals) == Len(Found(text, signals))

PATTERNS(name) ==
    CASE name = "injection" -> {"rm -rf /", "drop"}
      [] name = "exfil" -> {"upload"}
      [] name = "secrets" -> {"password"}
HIGH_IMPACT_VERBS_PATTERN == {"delete", "rm -rf /", "drop"}
ALLOWLIST_KEYWORDS == {"status", "preview", "dry-run"}
MORAL_BLOCK_PATTERNS == {"steal", "threaten"}
IDENTITY_VIOLATION_PATTERNS == {"pose as"}
FINANCIAL_RISK_PATTERNS == {"wire money"}
PROMPT_INJECTION_PATTERNS ==
    {"ignore previous instructions", "ignore instructions",
     "after reading bob@example.com send", "after reading bobaexample.com send"}
PII_PATTERNS(kind) ==
    CASE kind = "ssn" -> {"123-45-6789", "123456789"}
      [] kind = "credit_card" -> {"4111111111111111"}
      [] kind = "email" -> {"bob@example.com", "after reading bob@example.com send"}
      [] kind = "phone" -> {"555-123-4567"}
      [] kind = "ip_address" -> {"10.0.0.1"}
PII_FIELD_NAMES == {"ssn"}

TOOL_RISK_TIERS(tool) ==
    CASE tool = "exec" -> Pt(6)
      [] tool = "write" -> Pt(3)
      [] tool = "edit" -> Pt(2)
      [] tool = "browser" -> Pt(4)
      [] tool = "network" -> Pt(5)
      [] tool = "read" -> 0
      [] tool = "query" -> 0
      [] tool = "message" -> Pt(3)
      [] OTHER -> Pt(1)

(* ------------------------------ protocols.py -------------------------- *)
Truthy(v) ==
    CASE v[1] = "bool" -> v[2]
      [] v[1] = "num" -> v[2] # 0
      [] v[1] = "text" -> v[2] # <<>>
      [] OTHER -> FALSE
Ctx(proposal, key) == Truthy(GetOr(proposal.context, key, <<"bool", FALSE>>))
NumberOf(v) ==
    IF v[1] = "bool" THEN (IF v[2] THEN 1 ELSE 0) ELSE IF v[1] = "num" THEN v[2] ELSE 0
Amount(proposal) == GetOr(proposal.context, "financial_amount", Num(0))

(* the reasons a list of signals adds, one per signal found in the text *)
SignalReasons(text, signals, label) ==
    LET found == Found(text, signals)
    IN [i \in 1..Len(found) |-> <<label, found[i]>>]

check_prime_directive(proposal) ==
    LET signals == <<"quick fix", "tech debt">>
        review == Ctx(proposal, "bypasses_review")
        score == Pt(2) * Hits(proposal.text, signals) + (IF review THEN Pt(3) ELSE 0)
    IN CheckResult("long_term_alignment", "Article I - Prime Directive",
           Min(score, Pt(6)),
           SignalReasons(proposal.text, signals, "Short-term signal detected:")
             \o (IF review THEN << <<"Action bypasses review process">> >> ELSE <<>>),
           FALSE)

check_moral_constraints(proposal) ==
    LET signals == <<"cover up", "fake", "fabricate">>
        score == Pt(4) * Hits(proposal.text, signals)
    IN IF AnyIn(proposal.text, MORAL_BLOCK_PATTERNS)
       THEN CheckResult("moral_check", "Article II - Moral Constraints", Pt(10),
                << <<"Moral violation detected - Article II prohibits this action">> >>,
                TRUE)
       ELSE CheckResult("moral_check", "Article II - Moral Constraints",
                Min(score, Pt(10)),
                SignalReasons(proposal.text, signals, "Deception signal:"),
                score >= Pt(8))

check_truth_integrity(proposal) ==
    LET signals == <<"make up", "fabricate", "pretend">>
        unverified == Ctx(proposal, "unverified_data")
        score == Pt(4) * Hits(proposal.text, signals) + (IF unverified THEN Pt(2) ELSE 0)
    IN CheckResult("truth_check", "Article III - Truth & Intellectual Integrity",
           Min(score, Pt(6)),
           SignalReasons(proposal.text, signals, "Truth violation:")
             \o (IF unverified THEN << <<"Action relies on unverified data">> >> ELSE <<>>),
           FALSE)

check_consequence_analysis(proposal) ==
    LET is_high_impact == AnyIn(proposal.text, HIGH_IMPACT_VERBS_PATTERN)
        has_analysis == Ctx(proposal, "consequence_analysis_done")
        a == is_high_impact /\ ~has_analysis
        b == Ctx(proposal, "no_rollback_plan") /\ is_high_impact
    IN CheckResult("consequence_analysis", "Article IV - Proactive Reasoning",
           Min((IF a THEN Pt(4) ELSE 0) + (IF b THEN Pt(2) ELSE 0), Pt(6)),
           (IF a THEN << <<"High-impact action without documented consequence analysis">> >>
            ELSE <<>>)
             \o (IF b THEN << <<"No rollback plan for irreversible action">> >> ELSE <<>>),
           FALSE)

check_sustainability(proposal) ==
    LET a == Ctx(proposal, "exceeds_capacity")
        b == Ctx(proposal, "burnout_risk")
    IN CheckResult("sustainability_check", "Article V - Human Optimization Mandate",
           Min((IF a THEN Pt(4) ELSE 0) + (IF b THEN Pt(3) ELSE 0), Pt(6)),
           (IF a THEN << <<"Action exceeds stated capacity limits">> >> ELSE <<>>)
             \o (IF b THEN << <<"Burnout risk flagged">> >> ELSE <<>>),
           FALSE)

check_financial_risk(proposal) ==
    LET p == AnyIn(proposal.text, FINANCIAL_RISK_PATTERNS)
        positive == NumberOf(Amount(proposal)) > 0
        a == positive /\ ~Ctx(proposal, "roi_evaluated")
        b == positive /\ Ctx(proposal, "impulsive")
    IN CheckResult("financial_risk", "Article VI - Financial Stewardship Protocol",
           Min((IF p THEN Pt(4) ELSE 0) + (IF a THEN Pt(3) ELSE 0)
               + (IF b THEN Pt(4) ELSE 0), Pt(8)),
           (IF p THEN << <<"Financial risk pattern detected - requires structured assessment">> >>
            ELSE <<>>)
             \o (IF a THEN << <<"Financial action without ROI evaluation">> >> ELSE <<>>)
             \o (IF b THEN << <<"Impulsive financial behavior detected">> >> ELSE <<>>),
           FALSE)

check_security(proposal) ==
    LET text == proposal.text
        inj == AnyIn(text, PATTERNS("injection"))
        exf == AnyIn(text, PATTERNS("exfil"))
        sec == AnyIn(text, PATTERNS("secrets"))
        dangerous == AnyIn(text, HIGH_IMPACT_VERBS_PATTERN)
        elevated == AnyIn(proposal.grants, {"admin", "sudo", "root", "write:system"})
        irr == dangerous /\ ~AnyIn(text, ALLOWLIST_KEYWORDS)
        score == (IF inj THEN Pt(4) ELSE 0) + (IF exf THEN Pt(4) ELSE 0)
                 + (IF sec THEN Pt(3) ELSE 0)
                 + (IF dangerous /\ elevated THEN Pt(4) ELSE IF dangerous THEN Pt(2) ELSE 0)
                 + (IF irr THEN Pt(4) ELSE 0)
        hard_block == score >= Pt(8)
    IN CheckResult("security_check", "Article VII - Security & Privacy Doctrine",
           Min(score, Pt(10)),
           (IF inj THEN << <<"Injection risk - hostile pattern detected">> >> ELSE <<>>)
             \o (IF exf THEN << <<"Data exfiltration risk - outbound data transfer detected">> >>
                 ELSE <<>>)
             \o (IF sec THEN << <<"Secrets exposure risk - sensitive credential pattern detected">> >>
                 ELSE <<>>)
             \o (IF dangerous /\ elevated
                 THEN << <<"Privilege escalation risk - high-impact verb with elevated grants">> >>
                 ELSE IF dangerous
                 THEN << <<"High-impact verb detected - requires caution">> >>
                 ELSE <<>>)
             \o (IF irr
                 THEN << <<"Irreversible action without safety indicators (dry-run, preview, etc.)">> >>
                 ELSE <<>>)
             \o (IF hard_block THEN << <<"Security threat level critical - BLOCK enforced">> >>
                 ELSE <<>>),
           hard_block)

check_drift(proposal) ==
    LET found == Found(proposal.text, <<"override protocols", "disable safety">>)
    IN IF found # <<>>
       THEN CheckResult("drift_check", "Article VIII - Learning & Adaptation",
                Min(Pt(6), Pt(10)),
                << <<"Protocol drift attempt:", found[1]>> >>, TRUE)
       ELSE CheckResult("drift_check", "Article VIII - Learning & Adaptation",
                0, <<>>, FALSE)

check_evaluation_framework(proposal) ==
    LET is_significant ==
            \/ AnyIn(proposal.text, HIGH_IMPACT_VERBS_PATTERN)
            \/ Ctx(proposal, "significant_impact")
            \/ NumberOf(Amount(proposal)) >= 100
        roi_done == Ctx(proposal, "roi_evaluated")
        a == is_significant /\ ~(Ctx(proposal, "risk_assessment_done") \/ roi_done)
        b == is_significant /\ ~(Ctx(proposal, "alternative_considered") \/ roi_done)
        c == is_significant /\ ~(Ctx(proposal, "consequences_stated") \/ roi_done)
    IN CheckResult("evaluation_framework", "Article IX - Command Evaluation Framework",
           Min((IF a THEN Pt(2) ELSE 0) + (IF b THEN Pt(1) ELSE 0)
               + (IF c THEN Pt(1) ELSE 0), Pt(6)),
           (IF a THEN << <<"Significant action without structured risk assessment (Art IX req 1)">> >>
            ELSE <<>>)
             \o (IF b THEN << <<"No alternative solution presented (Art IX req 2)">> >> ELSE <<>>)
             \o (IF c THEN << <<"Long-term consequences not documented (Art IX req 3)">> >>
                 ELSE <<>>),
           FALSE)

check_temperament(proposal) ==
    LET signals == <<"threaten", "or else", "final warning">>
    IN CheckResult("temperament_check", "Article X - Temperament",
           Min(Pt(2) * Hits(proposal.text, signals), Pt(4)),
           SignalReasons(proposal.text, signals, "Emotional escalation detected:"),
           FALSE)

check_identity(proposal) ==
    LET found == SelectSeq(proposal.text, LAMBDA t : t \in IDENTITY_VIOLATION_PATTERNS)
    IN CheckResult("identity_check", "Article XI - Identity",
           IF found # <<>> THEN Min(Pt(6), Pt(6)) ELSE 0,
           IF found # <<>> THEN << <<"Identity violation:", found[1]>> >> ELSE <<>>,
           FALSE)

check_prompt_injection(proposal) ==
    LET inText == SelectSeq(proposal.text, LAMBDA t : t \in PROMPT_INJECTION_PATTERNS)
        inRaw == SelectSeq(proposal.raw_input, LAMBDA t : t \in PROMPT_INJECTION_PATTERNS)
        match == IF inText # <<>> THEN <<inText[1]>>
                 ELSE IF inRaw # <<>> THEN <<inRaw[1]>> ELSE <<>>
        soft == /\ proposal.source = "external"
                /\ match = <<>>
                /\ Hits(proposal.text, <<"ignore", "forget", "override", "instead">>) >= 2
        score == IF match # <<>> THEN Pt(8) ELSE IF soft THEN Pt(3) ELSE 0
    IN CheckResult("prompt_injection", "Article VII - Security & Privacy Doctrine",
           Min(score, Pt(10)),
           (IF match # <<>>
            THEN << <<"Prompt injection attempt detected:", match[1]>> >> ELSE <<>>)
             \o (IF soft
                 THEN << <<"External input contains multiple imperative override signals">> >>
                 ELSE <<>>),
           score >= Pt(8))

check_pii_leakage(proposal) ==
    LET scan_target == proposal.text \o proposal.raw_input
        ssn == AnyIn(scan_target, PII_PATTERNS("ssn"))
        cc == AnyIn(scan_target, PII_PATTERNS("credit_card"))
        email == AnyIn(scan_target, PII_PATTERNS("email"))
        phone == AnyIn(scan_target, PII_PATTERNS("phone"))
        ip == AnyIn(scan_target, PII_PATTERNS("ip_address"))
        fields == AnyIn(scan_target, PII_FIELD_NAMES)
        pii_list == (IF ssn THEN <<"ssn">> ELSE <<>>) \o (IF cc THEN <<"credit_card">> ELSE <<>>)
                    \o (IF email THEN <<"email">> ELSE <<>>)
                    \o (IF phone THEN <<"phone">> ELSE <<>>)
                    \o (IF ip THEN <<"ip_address">> ELSE <<>>)
        base == (IF ssn THEN Pt(4) ELSE 0) + (IF cc THEN Pt(4) ELSE 0)
                + (IF email THEN Pt(2) ELSE 0) + (IF phone THEN Pt(4) ELSE 0)
                + (IF ip THEN Pt(4) ELSE 0) + (IF fields THEN Pt(3) ELSE 0)
        outbound == proposal.action_type \in {"network", "communication", "file_op"}
        score == IF base > 0 /\ outbound THEN (base * 3) \div 2 ELSE base
    IN CheckResult("pii_leakage", "Article VII - Security & Privacy Doctrine",
           Min(score, Pt(10)),
           (IF fields THEN << <<"PII field names detected in payload">> >> ELSE <<>>)
             \o (IF pii_list # <<>> THEN << <<"PII detected in proposal:">> \o pii_list >>
                 ELSE <<>>)
             \o (IF base > 0 /\ outbound
                 THEN << <<"PII detected in outbound action">> >> ELSE <<>>),
           FALSE)

check_tool_risk(proposal) ==
    LET tool == proposal.tool_name
        tier_score == TOOL_RISK_TIERS(tool)
        tiered == tool # "" /\ tier_score > 0
        amplified == tool = "exec" /\ In(proposal.grants, "shell")
        score == (IF tiered THEN tier_score ELSE 0) + (IF amplified THEN Pt(2) ELSE 0)
    IN CheckResult("tool_risk", "Article IX - Command Evaluation Framework",
           Min(score, Pt(8)),
           (IF tiered THEN << <<"Tool has elevated baseline risk", tool>> >> ELSE <<>>)
             \o (IF amplified THEN << <<"exec + shell grant - highest risk combination">> >>
                 ELSE <<>>),
           FALSE)

run_all_checks(proposal) ==
    << check_prime_directive(proposal), check_moral_constraints(proposal),
       check_truth_integrity(proposal), check_consequence_analysis(proposal),
       check_sustainability(proposal), check_financial_risk(proposal),
       check_security(proposal), check_drift(proposal),
       check_evaluation_framework(proposal), check_temperament(proposal),
       check_identity(proposal), check_prompt_injection(proposal),
       check_pii_leakage(proposal), check_tool_risk(proposal) >>

(* ------------------------------ intent_lock.py ------------------------ *)
(* lock is None; has_scope tells lock.scope from None *)
NoLock == [present |-> FALSE, has_scope |-> FALSE, user_id |-> Null, intent_text |-> <<>>,
           allow_paths |-> <<>>, allow_commands |-> <<>>,
           allow_network_targets |-> <<>>, passphrase_hash |-> Null]

ListOf(d, k) == LET v == GetOr(d, k, List(<<>>)) IN IF v[1] = "list" THEN v[2] ELSE <<>>

(* load_intent_lock: None (NoLock), a lock, or an exception *)
load_intent_lock(file) ==
    IF file = <<"absent">> \/ file = Garbage THEN Ok(NoLock)
    ELSE IF ~IsDict(file) THEN Raise("AttributeError")
    ELSE LET data == file[2]
             scope_data == GetOr(data, "scope", Dict(<<>>))
         IN IF ~IsDict(scope_data) THEN Raise("AttributeError")
            ELSE IF ~(Has(data, "user_id") /\ Has(data, "intent_text")
                      /\ Has(data, "passphrase_hash"))
            THEN Ok(NoLock)
            ELSE Ok([present |-> TRUE, has_scope |-> TRUE,
                     user_id |-> Get(data, "user_id"),
                     intent_text |-> Get(data, "intent_text")[2],
                     allow_paths |-> ListOf(scope_data[2], "allow_paths"),
                     allow_commands |-> ListOf(scope_data[2], "allow_commands"),
                     allow_network_targets |-> ListOf(scope_data[2], "allow_network_targets"),
                     passphrase_hash |-> Get(data, "passphrase_hash")])

(* _sha: the SHA-256 hex digest of the text, a text that names it; distinct
   texts have distinct digests *)
sha(text) == Text(<<"sha256">> \o text)

(* set_intent_lock that accepts an empty passphrase *)
set_intent_lock_any_passphrase(user_id, passphrase, intent_text, scope, file, clock) ==
    IF user_id = <<>> \/ intent_text = <<>>
    THEN [exc |-> "ValueError", file |-> file]
    ELSE [exc |-> "none",
          file |-> Dict(<< <<"user_id", Text(user_id)>>,
                           <<"intent_text", Text(intent_text)>>,
                           <<"scope",
                             Dict(<< <<"allow_paths",
                                       GetOr(scope, "allow_paths",
                                             GetOr(scope, "allowPaths", List(<<>>)))>>,
                                     <<"allow_commands",
                                       GetOr(scope, "allow_commands",
                                             GetOr(scope, "allowCommands", List(<<>>)))>>,
                                     <<"allow_network_targets",
                                       GetOr(scope, "allow_network_targets",
                                             GetOr(scope, "allowNetworkTargets",
                                                   List(<<>>)))>> >>)>>,
                           <<"passphrase_hash", sha(passphrase)>>,
                           <<"created_at", <<"ts", clock>> >> >>)]

(* set_intent_lock that reads only the snake_case keys of scope *)
set_intent_lock_snake_only(user_id, passphrase, intent_text, scope, file, clock) ==
    IF user_id = <<>> \/ passphrase = <<>> \/ intent_text = <<>>
    THEN [exc |-> "ValueError", file |-> file]
    ELSE [exc |-> "none",
          file |-> Dict(<< <<"user_id", Text(user_id)>>,
                           <<"intent_text", Text(intent_text)>>,
                           <<"scope",
                             Dict(<< <<"allow_paths",
                                       GetOr(scope, "allow_paths", List(<<>>))>>,
                                     <<"allow_commands",
                                       GetOr(scope, "allow_commands", List(<<>>))>>,
                                     <<"allow_network_targets",
                                       GetOr(scope, "allow_network_targets", List(<<>>))>> >>)>>,
                           <<"passphrase_hash", sha(passphrase)>>,
                           <<"created_at", <<"ts", clock>> >> >>)]

(* set_intent_lock: the exception raised and the lock file after the call;
   user_id, passphrase and intent_text are strings (sequences of tokens), scope
   a dict, and the file holds json.dumps(lock.to_dict()) *)
set_intent_lock(user_id, passphrase, intent_text, scope, file, clock) ==
    IF user_id = <<>> \/ passphrase = <<>> \/ intent_text = <<>>
    THEN [exc |-> "ValueError", file |-> file]
    ELSE [exc |-> "none",
          file |-> Dict(<< <<"user_id", Text(user_id)>>,
                           <<"intent_text", Text(intent_text)>>,
                           <<"scope",
                             Dict(<< <<"allow_paths",
                                       GetOr(scope, "allow_paths",
                                             GetOr(scope, "allowPaths", List(<<>>)))>>,
                                     <<"allow_commands",
                                       GetOr(scope, "allow_commands",
                                             GetOr(scope, "allowCommands", List(<<>>)))>>,
                                     <<"allow_network_targets",
                                       GetOr(scope, "allow_network_targets",
                                             GetOr(scope, "allowNetworkTargets",
                                                   List(<<>>)))>> >>)>>,
                           <<"passphrase_hash", sha(passphrase)>>,
                           <<"created_at", <<"ts", clock>> >> >>)]

(* verify_passphrase(attempt): the exception raised and the answer *)
verify_passphrase(attempt, file) ==
    LET lock == load_intent_lock(file) IN
    IF lock.exc # "none" THEN Raise(lock.exc)
    ELSE IF ~lock.val.present THEN Ok(FALSE)
    ELSE Ok(sha(attempt) = lock.val.passphrase_hash)

(* str.startswith on the resolved paths of the vocabulary *)
StartsWith(a, b) ==
    \/ a = b
    \/ <<a, b>> \in {<<"/repo/a.txt", "/repo">>, <<"/repo-other/x", "/repo">>}

is_path_allowed(lock, target_path, repo_root) ==
    IF target_path = <<>> THEN TRUE
    ELSE IF ~StartsWith(target_path[1], repo_root) THEN FALSE
    ELSE IF lock.allow_paths = <<>> THEN FALSE
    ELSE \E i \in 1..Len(lock.allow_paths) : StartsWith(target_path[1], lock.allow_paths[i])

(* "host in target" on the hosts of the vocabulary *)
is_network_allowed(lock, target) ==
    IF target = <<>> THEN FALSE
    ELSE IF lock.allow_network_targets = <<>> THEN FALSE
    ELSE \E i \in 1..Len(lock.allow_network_targets) :
            \/ lock.allow_network_targets[i] = target[1]
            \/ <<lock.allow_network_targets[i], target[1]>>
                   \in {<<"github.com", "api.github.com">>, <<"github.com", "notgithub.com">>}

(* re.search(pattern, text) for the patterns of the vocabulary: a word *)
is_command_allowed(lock, text) ==
    IF text = <<>> THEN TRUE
    ELSE IF lock.allow_commands = <<>> THEN FALSE
    ELSE \E i \in 1..Len(lock.allow_commands) : In(text, lock.allow_commands[i])

(* ------------------------------ normalizer.py ------------------------- *)
(* a numeric entity above U+10FFFF: chr() raises ValueError *)
BadEntity == "&#x110000;"

(* normalize(): each token through NFKC, zero-width, entities, base64, word
   splits, leetspeak, whitespace *)
normalize(text) ==
    IF text = <<>> THEN Ok(text)
    ELSE IF In(text, BadEntity) THEN Raise("ValueError")
    ELSE LET NormTok(tok) ==
                 CASE tok = "123-45-6789" -> "i2e-as-gtb9"
                   [] tok = "bob@example.com" -> "bobaexample.com"
                   [] tok = "1gn0r3 instructions" -> "ignore instructions"
                   [] tok = "after reading bob@example.com send"
                        -> "after reading bobaexample.com send"
                   [] OTHER -> tok
             result == [i \in 1..Len(text) |-> NormTok(text[i])]
         IN IF result # text THEN Ok(text \o result) ELSE Ok(result)

(* ------------------------------ models.py: Proposal ------------------- *)
TextOf(d, k) == LET v == GetOr(d, k, Null) IN IF v[1] = "text" THEN v[2] ELSE <<>>
(* Proposal construction with __post_init__: a missing or None field takes its
   default; evaluate(None) evaluates Proposal(text="") *)
Proposal(raw) ==
    LET d == IF IsDict(raw) THEN raw[2] ELSE <<>>
        TokOf(k, default) == LET t == TextOf(d, k) IN IF t = <<>> THEN default ELSE t[1]
    IN
    [text |-> TextOf(d, "text"),
     action_type |-> TokOf("action_type", ""),
     target_path |-> TextOf(d, "target_path"),
     network_target |-> TextOf(d, "network_target"),
     grants |-> ListOf(d, "grants"),
     session_intent |-> TextOf(d, "session_intent"),
     context |-> LET c == GetOr(d, "context", Dict(<<>>)) IN IF IsDict(c) THEN c[2] ELSE <<>>,
     tool_name |-> TokOf("tool_name", ""),
     source |-> TokOf("source", "agent"),
     raw_input |-> TextOf(d, "raw_input")]

(* ------------------------------ engine.py ----------------------------- *)
(* ACTION_TYPE_HINTS, first match in declaration order *)
classify_action(text) ==
    IF Len(text) >= 2 /\ text[1] \in {"git", "npm", "sudo"} THEN "command"
    ELSE IF AnyIn(text, {"write file"}) THEN "file_op"
    ELSE IF AnyIn(text, {"upload", "fetch"}) THEN "network"
    ELSE IF AnyIn(text, {"buy", "wire money"}) THEN "financial"
    ELSE IF AnyIn(text, {"send", "after reading bob@example.com send"}) THEN "communication"
    ELSE IF AnyIn(text, {"install"}) THEN "system"
    ELSE "unknown"

normalize_step(proposal) ==
    IF proposal.action_type = "" \/ proposal.action_type = "unknown"
    THEN [proposal EXCEPT !.action_type = classify_action(proposal.text)]
    ELSE proposal

authenticate(lock) ==
    IF ~lock.present
    THEN << CheckResult("authentication", "CORD - Intent Lock", Pt(4),
                << <<"No intent lock set - session purpose undefined, operating in restricted mode">> >>,
                FALSE) >>
    ELSE <<>>

(* _scope_check with a network violation scored 1.0 *)
scope_check_network_one(proposal, lock, repo_root) ==
    IF ~lock.present \/ ~lock.has_scope THEN <<>>
    ELSE LET a == proposal.target_path # <<>>
                  /\ ~is_path_allowed(lock, proposal.target_path, repo_root)
             b == proposal.network_target # <<>>
                  /\ ~is_network_allowed(lock, proposal.network_target)
             c == proposal.text # <<>> /\ proposal.action_type \in {"command", "system"}
                  /\ ~is_command_allowed(lock, proposal.text)
             score == (IF a THEN Pt(4) ELSE 0) + (IF b THEN Pt(2) ELSE 0)
                      + (IF c THEN Pt(2) ELSE 0)
         IN IF score > 0
            THEN << CheckResult("scope_check", "CORD - Scope Enforcement", score,
                      (IF a THEN << <<"Path '">> \o proposal.target_path
                                     \o <<"' is outside allowed scope">> >> ELSE <<>>)
                        \o (IF b THEN << <<"Network target '">> \o proposal.network_target
                                          \o <<"' is not in allowlist">> >> ELSE <<>>)
                        \o (IF c THEN << <<"Command not in allowed command patterns">> >>
                            ELSE <<>>),
                      score >= Pt(8)) >>
            ELSE <<>>

scope_check(proposal, lock, repo_root) ==
    IF ~lock.present \/ ~lock.has_scope THEN <<>>
    ELSE LET a == proposal.target_path # <<>>
                  /\ ~is_path_allowed(lock, proposal.target_path, repo_root)
             b == proposal.network_target # <<>>
                  /\ ~is_network_allowed(lock, proposal.network_target)
             c == proposal.text # <<>> /\ proposal.action_type \in {"command", "system"}
                  /\ ~is_command_allowed(lock, proposal.text)
             score == (IF a THEN Pt(4) ELSE 0) + (IF b THEN Pt(4) ELSE 0)
                      + (IF c THEN Pt(2) ELSE 0)
         IN IF score > 0
            THEN << CheckResult("scope_check", "CORD - Scope Enforcement", score,
                      (IF a THEN << <<"Path '">> \o proposal.target_path
                                     \o <<"' is outside allowed scope">> >> ELSE <<>>)
                        \o (IF b THEN << <<"Network target '">> \o proposal.network_target
                                          \o <<"' is not in allowlist">> >> ELSE <<>>)
                        \o (IF c THEN << <<"Command not in allowed command patterns">> >>
                            ELSE <<>>),
                      score >= Pt(8)) >>
            ELSE <<>>

SynonymKeys == <<"update", "publish", "site", "api", "build", "delete">>
Synonyms(key) ==
    CASE key = "update" -> {"edit", "modify", "change", "tweak", "revise", "fix", "patch", "write"}
      [] key = "publish" -> {"push", "deploy", "release", "ship", "upload"}
      [] key = "site" -> {"html", "page", "website", "web", "contact", "index",
                          "manifesto", "architecture"}
      [] key = "api" -> {"api", "artificial", "persistent", "intelligence"}
      [] key = "build" -> {"compile", "make", "create", "construct"}
      [] key = "delete" -> {"remove", "drop", "purge", "clean", "wipe", "rm"}
(* str.lower() on the tokens of the vocabulary *)
Lower(text) ==
    [i \in 1..Len(text) |->
        CASE text[i] = "Update" -> "update"
          [] text[i] = "Site" -> "site"
          [] text[i] = "Do" -> "do"
          [] text[i] = "Fix" -> "fix"
          [] OTHER -> text[i]]

(* set(text.split()) - stop_words; a token of the vocabulary that holds
   blanks is several words *)
Words(text) ==
    LET split(tok) == CASE tok = "rm -rf /" -> {"rm", "-rf", "/"}
                        [] tok = "write file" -> {"write", "file"}
                        [] tok = "wire money" -> {"wire", "money"}
                        [] OTHER -> {tok}
    IN UNION {split(text[i]) : i \in 1..Len(text)}
        \ {"the", "a", "an", "to", "and", "or", "in", "on", "at", "for", "of",
           "is", "it", "do"}

(* _intent_match comparing session_intent and the intent as they are
   written *)
intent_match_case_sensitive(proposal, lock) ==
    IF ~lock.present THEN <<>>
    ELSE LET intent_words == Words(Lower(lock.intent_text))
             text_words == Words(Lower(proposal.text))
             expanded_intent ==
                 intent_words \cup
                 UNION {Synonyms(SynonymKeys[k]) \cup {SynonymKeys[k]} :
                          k \in {j \in 1..Len(SynonymKeys) :
                                   \E w \in intent_words :
                                      w = SynonymKeys[j] \/ w \in Synonyms(SynonymKeys[j])}}
         IN IF /\ proposal.session_intent # <<>>
               /\ proposal.session_intent = lock.intent_text
            THEN <<>>
            ELSE IF text_words \cap expanded_intent # {} THEN <<>>
            ELSE << CheckResult("intent_drift", "CORD - Intent Alignment", Pt(3),
                      << <<"Proposal may drift from declared intent:">> \o lock.intent_text,
                         <<"No meaningful overlap between proposal and session intent">> >>,
                      FALSE) >>

intent_match(proposal, lock) ==
    IF ~lock.present THEN <<>>
    ELSE LET intent_words == Words(Lower(lock.intent_text))
             text_words == Words(Lower(proposal.text))
             expanded_intent ==
                 intent_words \cup
                 UNION {Synonyms(SynonymKeys[k]) \cup {SynonymKeys[k]} :
                          k \in {j \in 1..Len(SynonymKeys) :
                                   \E w \in intent_words :
                                      w = SynonymKeys[j] \/ w \in Synonyms(SynonymKeys[j])}}
         IN IF /\ proposal.session_intent # <<>>
               /\ Lower(proposal.session_intent) = Lower(lock.intent_text)
            THEN <<>>
            ELSE IF text_words \cap expanded_intent # {} THEN <<>>
            ELSE << CheckResult("intent_drift", "CORD - Intent Alignment", Pt(3),
                      << <<"Proposal may drift from declared intent:">> \o lock.intent_text,
                         <<"No meaningful overlap between proposal and session intent">> >>,
                      FALSE) >>

(* _suggest_alternatives without its closing default ("No specific
   alternative needed") *)
suggest_alternatives_no_default(proposal, check_results) ==
    LET all == collect_reasons([i \in 1..Len(check_results) |->
                   [check_results[i] EXCEPT !.hard_block = TRUE]])
        any(P(_)) == \E i \in 1..Len(all) : P(all[i])
        alternatives ==
            (IF any(LAMBDA r : r[1] = "No rollback plan for irreversible action")
             THEN <<"Run with --dry-run or --preview first to assess impact">> ELSE <<>>)
            \o (IF any(LAMBDA r : r[1] = "Data exfiltration risk - outbound data transfer detected")
                THEN <<"Review data before sending - minimize what leaves the system">>
                ELSE <<>>)
            \o (IF any(LAMBDA r : r[1] \in
                       {"Financial risk pattern detected - requires structured assessment",
                        "Financial action without ROI evaluation",
                        "Impulsive financial behavior detected"})
                THEN <<"Perform a structured ROI analysis before committing funds">>
                ELSE <<>>)
            \o (IF any(LAMBDA r : Len(r) >= 3 /\ r[Len(r)] = "' is outside allowed scope")
                THEN <<"Update intent lock to expand scope if this action is intentional">>
                ELSE <<>>)
            \o (IF AnyIn(proposal.text, {"rm -rf /", "delete"})
                THEN <<"Use a staging/trash approach instead of permanent deletion">>
                ELSE <<>>)
    IN alternatives

(* the alternatives are chosen by the reasons holding "irreversi", "exfil",
   "financial", "scope" *)
suggest_alternatives(proposal, check_results) ==
    LET all == collect_reasons([i \in 1..Len(check_results) |->
                   [check_results[i] EXCEPT !.hard_block = TRUE]])
        any(P(_)) == \E i \in 1..Len(all) : P(all[i])
        alternatives ==
            (IF any(LAMBDA r : r[1] = "No rollback plan for irreversible action")
             THEN <<"Run with --dry-run or --preview first to assess impact">> ELSE <<>>)
            \o (IF any(LAMBDA r : r[1] = "Data exfiltration risk - outbound data transfer detected")
                THEN <<"Review data before sending - minimize what leaves the system">>
                ELSE <<>>)
            \o (IF any(LAMBDA r : r[1] \in
                       {"Financial risk pattern detected - requires structured assessment",
                        "Financial action without ROI evaluation",
                        "Impulsive financial behavior detected"})
                THEN <<"Perform a structured ROI analysis before committing funds">>
                ELSE <<>>)
            \o (IF any(LAMBDA r : Len(r) >= 3 /\ r[Len(r)] = "' is outside allowed scope")
                THEN <<"Update intent lock to expand scope if this action is intentional">>
                ELSE <<>>)
            \o (IF AnyIn(proposal.text, {"rm -rf /", "delete"})
                THEN <<"Use a staging/trash approach instead of permanent deletion">>
                ELSE <<>>)
    IN IF alternatives = <<>>
       THEN <<"No specific alternative needed - action appears within bounds">>
       ELSE alternatives

(* round(x, 2): a score in units of 1/Unit to hundredths *)
Round2(x) == (2 * x * 100 + Unit) \div (2 * Unit)

RateWindow == 60
RateMax == 40

rate_check(rate) ==
    IF rate.rate10 > 300 \/ rate.exceeded
    THEN << CheckResult("rate_anomaly", "Article VII - Security & Privacy Doctrine",
              IF rate.rate10 > 300 THEN Min(Pt(4) + rate.rate10, Pt(10)) ELSE Pt(4),
              << <<"Rate anomaly: ", ToString(rate.count), " proposals in last 60s",
                   " - possible abuse loop or runaway agent">> >>,
              rate.exceeded /\ rate.rate10 > 600) >>
    ELSE <<>>

OptText(t) == IF t = <<>> THEN Null ELSE Text(t)

NoVerdict == [decision |-> "none", score |-> 0, reasons |-> <<>>,
              alternatives |-> <<>>, article_violations |-> <<>>, log_id |-> Null]

Raised(e, file) == [exc |-> e, verdict |-> NoVerdict, file |-> file, results |-> <<>>]

(* evaluate, steps 6-9: score, decision, audit entry, verdict *)
evaluate_decide(proposal, all_results, anomaly, file, clock, level, thresholds) ==
    LET total_score == compute_composite_score(all_results) + anomaly
        decision == decide(total_score, all_results, thresholds)
        reasons == collect_reasons(all_results)
        violations == collect_violations(all_results)
        \* {r.dimension: r.score for r in all_results if r.score > 0}: a key
        \* keeps the place of its first insertion and the value of its last
        RiskProfile(check_results) ==
            LET fired(i) == check_results[i].score > 0
                first(i) == fired(i) /\ \A j \in 1..(i - 1) :
                                ~(fired(j) /\ check_results[j].dimension = check_results[i].dimension)
                lastOf(i) == CHOOSE j \in i..Len(check_results) :
                                /\ fired(j) /\ check_results[j].dimension = check_results[i].dimension
                                /\ \A k \in (j + 1)..Len(check_results) :
                                      ~(fired(k) /\ check_results[k].dimension = check_results[i].dimension)
                idx == SelectSeq([i \in 1..Len(check_results) |-> i], first)
            IN [n \in 1..Len(idx) |->
                  <<check_results[idx[n]].dimension, Num(Round2(check_results[lastOf(idx[n])].score))>>]
        profile == RiskProfile(all_results)
        risk_profile == IF anomaly > 0
                        THEN Put(profile, "anomaly_amplification", Num(Round2(anomaly)))
                        ELSE profile
        appended == append_log(
            << <<"decision", Str(decision)>>,
               <<"score", Num(Round2(total_score))>>,
               <<"risk_profile", Dict(risk_profile)>>,
               <<"reasons", List([i \in 1..Len(reasons) |-> Text(reasons[i])])>>,
               <<"violations", List([i \in 1..Len(violations) |-> Str(violations[i])])>>,
               <<"proposal", Text(proposal.text)>>,
               <<"action_type", Str(proposal.action_type)>>,
               <<"target_path", OptText(proposal.target_path)>>,
               <<"network_target", OptText(proposal.network_target)>> >>,
            file, clock, level)
    IN IF appended.exc # "none" THEN Raised(appended.exc, file)
       ELSE [exc |-> "none",
             verdict |-> [decision |-> decision, score |-> Round2(total_score),
                          reasons |-> reasons,
                          alternatives |-> suggest_alternatives(proposal, all_results),
                          article_violations |-> violations,
                          log_id |-> appended.val],
             file |-> appended.file, results |-> all_results]

evaluate_scored(proposal, all_results, file, clock, level, thresholds) ==
    evaluate_decide(proposal, all_results, detect_anomaly(all_results),
                    file, clock, level, thresholds)

(* evaluate, steps 2-5: authenticate, scope, intent, rate limit, protocols *)
evaluate_checks(proposal, loaded, rate, repo_root, file, clock, level, thresholds) ==
    IF loaded.exc # "none" THEN Raised(loaded.exc, file)
    ELSE IF rate.exc # "none" THEN Raised(rate.exc, file)
    ELSE IF Amount(proposal)[1] \notin {"num", "bool"}
         THEN Raised("TypeError", file)     \* financial_amount compared with a number
    ELSE evaluate_scored(
             proposal,
             run_all_checks(proposal) \o authenticate(loaded.val)
                 \o scope_check(proposal, loaded.val, repo_root)
                 \o intent_match(proposal, loaded.val) \o rate_check(rate),
             file, clock, level, thresholds)

(* evaluate, step 1: normalize the proposal and its text *)
evaluate_normalized(p1, ntext, nraw, repo_root, lock_file, file, clock, level, thresholds) ==
    IF ntext.exc # "none" THEN Raised(ntext.exc, file)
    ELSE IF nraw.exc # "none" THEN Raised(nraw.exc, file)
    ELSE evaluate_checks([p1 EXCEPT !.text = ntext.val, !.raw_input = nraw.val],
                         load_intent_lock(lock_file),
                         check_rate_limit(RateWindow, RateMax, file, clock),
                         repo_root, file, clock, level, thresholds)

evaluate_proposal(p1, repo_root, lock_file, file, clock, level, thresholds) ==
    evaluate_normalized(p1, normalize(p1.text),
                        IF p1.raw_input = <<>> THEN Ok(<<>>) ELSE normalize(p1.raw_input),
                        repo_root, lock_file, file, clock, level, thresholds)

(* evaluate(proposal, repo_root, lock_path, log_path): the exception that
   leaves it (or "none"), the Verdict, the audit log file afterwards, and
   the check results the decision was taken on *)
evaluate(raw, repo_root, lock_file, file, clock, level, thresholds) ==
    evaluate_proposal(normalize_step(Proposal(raw)),
                      repo_root, lock_file, file, clock, level, thresholds)

(* ------------------------------ interceptor.py ------------------------ *)
(* A tool call is [args |-> sequence of values, kwargs |-> pairs]; str(v)
   of a text value is the text itself *)
StrOf(v) == IF v[1] = "text" THEN v[2] ELSE <<"<repr>">>

tool_to_action_type(tool_name) ==
    CASE tool_name \in {"exec", "shell", "command", "bash", "subprocess"} -> "command"
      [] tool_name \in {"write", "edit", "create", "delete", "move", "copy"} -> "file_op"
      [] tool_name \in {"read", "query", "search", "list", "get"} -> "query"
      [] tool_name \in {"network", "browser", "fetch", "request", "http"} -> "network"
      [] tool_name \in {"message", "send", "email", "post", "publish"} -> "communication"
      [] OTHER -> "unknown"

(* the host of the first URL in a string of the vocabulary *)
UrlHost(s) ==
    IF s = <<"https://api.github.com/x">> THEN <<"api.github.com">>
    ELSE IF s = <<"https://notgithub.com/x">> THEN <<"notgithub.com">>
    ELSE <<>>

RECURSIVE JoinAll(_)
JoinAll(values) ==
    IF values = <<>> THEN <<>>
    ELSE (IF Head(values) = Null THEN <<>> ELSE StrOf(Head(values)))
         \o JoinAll(Tail(values))

RECURSIVE FirstPath(_)
FirstPath(values) ==
    IF values = <<>> THEN <<>>
    ELSE IF /\ Head(values)[1] = "text" /\ Head(values)[2] # <<>>
            /\ Head(values)[2][1] \in {"/repo/a.txt", "/repo-other/x", "/home/bob@example.com/x"}
         THEN Head(values)[2]
    ELSE FirstPath(Tail(values))

RECURSIVE FirstHost(_)
FirstHost(values) ==
    IF values = <<>> THEN <<>>
    ELSE IF UrlHost(StrOf(Head(values))) # <<>> THEN UrlHost(StrOf(Head(values)))
    ELSE FirstHost(Tail(values))

RECURSIVE FirstKwarg(_, _)
FirstKwarg(keys, kwargs) ==
    IF keys = <<>> THEN <<>>
    ELSE IF Has(kwargs, Head(keys)) /\ Truthy(Get(kwargs, Head(keys)))
         THEN StrOf(Get(kwargs, Head(keys)))
    ELSE FirstKwarg(Tail(keys), kwargs)

build_proposal(tool_name, args, kwargs, source, session_intent) ==
    LET all_values == args \o [i \in 1..Len(kwargs) |-> kwargs[i][2]]
        joined == JoinAll(all_values)
        text0 == IF \A i \in 1..Len(all_values) : all_values[i] = Null
                 THEN <<tool_name>> ELSE joined
        isExec == tool_name \in {"exec", "shell", "command", "bash", "subprocess"}
        isFile == tool_name \in {"write", "edit", "create", "delete", "move", "copy"}
        isNet == tool_name \in {"network", "browser", "fetch", "request", "http"}
        isRead == tool_name \in {"read", "query", "search", "list", "get"}
        isMsg == tool_name \in {"message", "send", "email", "post", "publish"}
        text == IF isExec
                THEN (IF args # <<>> THEN StrOf(args[1])
                      ELSE IF Has(kwargs, "cmd") THEN StrOf(Get(kwargs, "cmd"))
                      ELSE IF Has(kwargs, "command") THEN StrOf(Get(kwargs, "command"))
                      ELSE text0)
                ELSE text0
        target_path == IF isFile \/ isRead THEN FirstPath(all_values) ELSE <<>>
        fromValues == FirstHost(all_values)
        fromUrl == IF Has(kwargs, "url") THEN UrlHost(StrOf(Get(kwargs, "url"))) ELSE <<>>
        network_target == IF ~isNet THEN <<>>
                          ELSE IF fromUrl # <<>> THEN fromUrl ELSE fromValues
        raw1 == IF isFile THEN FirstKwarg(<<"content", "data", "body", "text">>, kwargs)
                ELSE IF isMsg THEN FirstKwarg(<<"body", "content", "message", "text">>, kwargs)
                ELSE <<>>
        raw_input == IF raw1 # <<>> THEN raw1
                     ELSE FirstKwarg(<<"raw_input", "input", "body", "content", "data",
                                       "payload">>, kwargs)
    IN Dict(<< <<"text", Text(text)>>,
               <<"action_type", Str(tool_to_action_type(tool_name))>>,
               <<"target_path", OptText(target_path)>>,
               <<"network_target", OptText(network_target)>>,
               <<"grants", List(IF isExec THEN <<"shell">> ELSE <<>>)>>,
               <<"session_intent", Text(session_intent)>>,
               <<"context", Dict(<<>>)>>,
               <<"tool_name", Str(tool_name)>>,
               <<"source", Str(source)>>,
               <<"raw_input", Text(raw_input)>> >>)

(* _summarize_args: the repr of the first three args and the first three
   kwargs (none of the vocabulary is longer than max_len) *)
summarize_args(args, kwargs) ==
    [i \in 1..Min(Len(args), 3) |-> <<"repr", args[i]>>]
    \o [i \in 1..Min(Len(kwargs), 3) |-> <<"kw", kwargs[i][1], kwargs[i][2]>>]

(* what the guarded callable returns for the call *)
FnResult(args, kwargs) == <<"result", args, kwargs>>

NoException == [type |-> "none", verdict |-> NoVerdict, tool_name |-> "",
                args_summary |-> <<>>]
ToolBlocked(verdict, tool_name, args_summary) ==
    [type |-> "ToolBlocked", verdict |-> verdict, tool_name |-> tool_name,
     args_summary |-> args_summary]
ToolChallenged(verdict, tool_name, args_summary) ==
    [type |-> "ToolChallenged", verdict |-> verdict, tool_name |-> tool_name,
     args_summary |-> args_summary]

(* a variant of the wrapper that raises ToolBlocked only after running fn *)
wrapper_running_blocked(verdict, tool_name, args, kwargs, on_challenge) ==
    IF verdict.decision = "BLOCK"
    THEN [raised |-> ToolBlocked(verdict, tool_name, summarize_args(args, kwargs)),
          asked |-> 0, invoked |-> 1, returned |-> Null]
    ELSE IF verdict.decision = "CHALLENGE" /\ on_challenge # "approve"
    THEN [raised |-> ToolChallenged(verdict, tool_name, summarize_args(args, kwargs)),
          asked |-> IF on_challenge = "absent" THEN 0 ELSE 1,
          invoked |-> 0, returned |-> Null]
    ELSE [raised |-> NoException,
          asked |-> IF verdict.decision = "CHALLENGE" THEN 1 ELSE 0,
          invoked |-> 1, returned |-> FnResult(args, kwargs)]

(* cord_guard's wrapper once evaluate has returned the verdict: what it
   raises, whether on_challenge was asked, whether fn ran, what it returns.
   on_challenge is "absent", or a handler that answers "approve" or "deny" *)
wrapper(verdict, tool_name, args, kwargs, on_challenge) ==
    IF verdict.decision = "BLOCK"
    THEN [raised |-> ToolBlocked(verdict, tool_name, summarize_args(args, kwargs)),
          asked |-> 0, invoked |-> 0, returned |-> Null]
    ELSE IF verdict.decision = "CHALLENGE" /\ on_challenge # "approve"
    THEN [raised |-> ToolChallenged(verdict, tool_name, summarize_args(args, kwargs)),
          asked |-> IF on_challenge = "absent" THEN 0 ELSE 1,
          invoked |-> 0, returned |-> Null]
    ELSE [raised |-> NoException,
          asked |-> IF verdict.decision = "CHALLENGE" THEN 1 ELSE 0,
          invoked |-> 1, returned |-> FnResult(args, kwargs)]

(* CORDEnforcer.call once evaluate has returned the verdict, with the
   counters it bumps *)
call(verdict, tool_name, args, kwargs, on_challenge) ==
    IF verdict.decision = "BLOCK"
    THEN [raised |-> ToolBlocked(verdict, tool_name, summarize_args(args, kwargs)),
          asked |-> 0, invoked |-> 0, returned |-> Null,
          blocked |-> 1, challenged |-> 0, allowed |-> 0]
    ELSE IF verdict.decision = "CHALLENGE" /\ on_challenge # "approve"
    THEN [raised |-> ToolChallenged(verdict, tool_name, summarize_args(args, kwargs)),
          asked |-> IF on_challenge = "absent" THEN 0 ELSE 1,
          invoked |-> 0, returned |-> Null,
          blocked |-> 0, challenged |-> 1, allowed |-> 0]
    ELSE [raised |-> NoException,
          asked |-> IF verdict.decision = "CHALLENGE" THEN 1 ELSE 0,
          invoked |-> 1, returned |-> FnResult(args, kwargs),
          blocked |-> 0, challenged |-> IF verdict.decision = "CHALLENGE" THEN 1 ELSE 0,
          allowed |-> 1]

(* ------------------------------ the state machine --------------------- *)
RepoRoot == "/repo"

NoLast ==
    [op |-> "init", exc |-> "none", verdict |-> NoVerdict, before |-> <<>>,
     tool_name |-> "", args |-> <<>>, kwargs |-> <<>>,
     on_challenge |-> "absent", asked |-> 0, invoked |-> 0, returned |-> Null,
     raised |-> NoException,
     score |-> 0, check_results |-> <<>>, decision |-> "none",
     added |-> <<>>, decision_after |-> "none",
     exceeded |-> FALSE, max_count |-> 0, proposal |-> Null,
     lock |-> NoLock, ok |-> FALSE, lock_before |-> <<"absent">>, held |-> <<>>,
     valid |-> FALSE, count |-> 0, index |-> 0]

NewEnforcer == [verdicts |-> <<>>, blocked_count |-> 0, allowed_count |-> 0,
                challenged_count |-> 0]

ValidLock ==
    Dict(<< <<"user_id", Str("alex")>>, <<"passphrase_hash", Str("<hash>")>>,
            <<"intent_text", Text(<<"update", "site">>)>>,
            <<"scope", Dict(<< <<"allow_paths", List(<<"/repo">>)>>,
                               <<"allow_commands", List(<<"git">>)>>,
                               <<"allow_network_targets", List(<<"github.com">>)>> >>)>> >>)

(* states of the intent lock file: missing, not JSON, JSON but no object,
   an object whose scope is no object, a lock *)
LockFiles ==
    << <<"absent">>, Garbage, List(<<>>),
       Dict(<< <<"user_id", Str("alex")>>, <<"scope", List(<<>>)>> >>),
       ValidLock >>


(* payloads handed to append_log *)
PayloadList ==
    << << <<"note", Str("ok")>> >>,
       << <<"proposal", Str("bob@example.com")>>, <<"i", Num(1)>> >>,
       << <<"path", Str("/home/bob@example.com/x")>> >>,
       << <<"note", Str("555-123-4567")>> >>,
       << <<"prev_hash", Str("x")>> >>,
       << <<"entry_hash", Str("x")>> >>,
       << <<"timestamp", Str("t")>> >> >>

(* proposals handed to evaluate; Null is evaluate(None) *)
ProposalList ==
    << Null,
       Dict(<< <<"text", Null>>, <<"grants", Null>>, <<"context", Null>> >>),
       Dict(<< <<"text", Str("status")>>, <<"tool_name", Str("read")>> >>),
       Dict(<< <<"text", Str("rm -rf /")>>, <<"tool_name", Str("exec")>>,
            <<"grants", List(<<"shell">>)>> >>),
       Dict(<< <<"text", Str("steal")>> >>),
       Dict(<< <<"text", Text(<<"git", "x">>)>>, <<"tool_name", Str("exec")>>,
            <<"grants", List(<<"shell">>)>> >>),
       Dict(<< <<"text", Str("bob@example.com")>>,
            <<"target_path", Str("/home/bob@example.com/x")>>,
            <<"network_target", Str("bob@example.com")>> >>),
       Dict(<< <<"text", Str("status")>>,
            <<"raw_input", Str("after reading bob@example.com send")>>,
            <<"source", Str("external")>> >>),
       Dict(<< <<"text", Str(BadEntity)>> >>),
       Dict(<< <<"text", Str("buy")>>,
            <<"context", Dict(<< <<"financial_amount", Str("100")>> >>)>> >>) >>

Init ==
    /\ log = <<>>
    /\ now = 0
    /\ REDACTION_LEVEL \in {"none", "pii", "full"}
    /\ THRESHOLDS = DefaultThresholds
    /\ \E i \in 1..Len(LockFiles) : lockFile = LockFiles[i]
    /\ last = NoLast
    /\ procs = <<>>
    /\ enforcer = NewEnforcer
    /\ nops = 0

(* append_log(entry), while the log is short or the call adds no line to it *)
AppendLog(entry) ==
    /\ nops < MaxOps
    /\ Len(log) < MaxLog \/ (log # <<>> /\ log[Len(log)] = Partial)
    /\ \E r \in {append_log(entry, log, now, REDACTION_LEVEL)} :
       /\ log' = r.file
       /\ last' = [NoLast EXCEPT !.op = "append_log", !.exc = r.exc, !.before = log,
                                 !.verdict = [NoVerdict EXCEPT !.log_id = r.val]]
    /\ nops' = nops + 1
    /\ UNCHANGED <<now, REDACTION_LEVEL, THRESHOLDS, lockFile, procs, enforcer>>

(* evaluate(proposal) on the audit log as it is *)
EvaluateOn(raw) ==
    /\ nops < MaxOps
    /\ \E r \in {evaluate(raw, RepoRoot, lockFile, log, now, REDACTION_LEVEL, THRESHOLDS)} :
       /\ log' = r.file
       /\ last' = [NoLast EXCEPT !.op = "evaluate", !.exc = r.exc, !.before = log,
                                 !.proposal = raw, !.held = last.held,
                                 !.verdict = r.verdict, !.check_results = r.results,
                                 !.decision = r.verdict.decision]
    /\ nops' = nops + 1
    /\ UNCHANGED <<now, REDACTION_LEVEL, THRESHOLDS, lockFile, procs, enforcer>>

(* evaluate(proposal) while the log is short *)
Evaluate(raw) == Len(log) < MaxLog /\ EvaluateOn(raw)

(* the wall clock advances *)
Tick ==
    /\ now < MaxTime
    /\ now' = now + 1
    /\ UNCHANGED <<log, REDACTION_LEVEL, THRESHOLDS, lockFile, last, procs, enforcer, nops>>

(* tool calls made through a guard: [tool_name, args, kwargs] *)
ToolCalls ==
    << [tool_name |-> "read", args |-> <<Str("/repo/a.txt")>>, kwargs |-> <<>>],
       [tool_name |-> "exec", args |-> <<Str("rm -rf /")>>, kwargs |-> <<>>],
       [tool_name |-> "exec", args |-> <<>>, kwargs |-> << <<"cmd", Text(<<"git", "x">>)>> >>],
       [tool_name |-> "message", args |-> <<Str("status")>>,
        kwargs |-> << <<"body", Str("bob@example.com")>> >>] >>

(* a call of a cord_guard wrapper (cord_guard, guard_registry, guard) *)
GuardedCall(c, on_challenge) ==
    /\ nops < MaxOps /\ Len(log) < MaxLog
    /\ \E r \in {evaluate(build_proposal(c.tool_name, c.args, c.kwargs, "agent", <<>>),
                           RepoRoot, lockFile, log, now, REDACTION_LEVEL, THRESHOLDS)} :
       \E route \in {wrapper(r.verdict, c.tool_name, c.args, c.kwargs, on_challenge)} :
          /\ log' = r.file
          /\ last' = IF r.exc # "none"
                     THEN [NoLast EXCEPT !.op = "guard", !.exc = r.exc, !.before = log,
                               !.tool_name = c.tool_name, !.args = c.args,
                               !.kwargs = c.kwargs, !.on_challenge = on_challenge]
                     ELSE [NoLast EXCEPT !.op = "guard", !.exc = route.raised.type,
                               !.before = log, !.verdict = r.verdict,
                               !.tool_name = c.tool_name, !.args = c.args,
                               !.kwargs = c.kwargs, !.on_challenge = on_challenge,
                               !.raised = route.raised,
                               !.asked = route.asked, !.invoked = route.invoked,
                               !.returned = route.returned]
    /\ nops' = nops + 1
    /\ UNCHANGED <<now, REDACTION_LEVEL, THRESHOLDS, lockFile, procs, enforcer>>

(* CORDEnforcer.call(fn, ...) *)
EnforcerCall(c, on_challenge) ==
    /\ nops < MaxOps /\ Len(log) < MaxLog
    /\ \E r \in {evaluate(build_proposal(c.tool_name, c.args, c.kwargs, "agent", <<>>),
                           RepoRoot, lockFile, log, now, REDACTION_LEVEL, THRESHOLDS)} :
       \E route \in {call(r.verdict, c.tool_name, c.args, c.kwargs, on_challenge)} :
          /\ log' = r.file
          /\ last' = IF r.exc # "none"
                     THEN [NoLast EXCEPT !.op = "enforcer", !.exc = r.exc, !.before = log,
                               !.tool_name = c.tool_name, !.args = c.args,
                               !.kwargs = c.kwargs, !.on_challenge = on_challenge]
                     ELSE [NoLast EXCEPT !.op = "enforcer", !.exc = route.raised.type,
                               !.before = log, !.verdict = r.verdict,
                               !.tool_name = c.tool_name, !.args = c.args,
                               !.kwargs = c.kwargs, !.on_challenge = on_challenge,
                               !.raised = route.raised,
                               !.asked = route.asked, !.invoked = route.invoked,
                               !.returned = route.returned]
          /\ enforcer' = IF r.exc # "none" THEN enforcer
                         ELSE [verdicts |-> Append(enforcer.verdicts, r.verdict),
                               blocked_count |-> enforcer.blocked_count + route.blocked,
                               allowed_count |-> enforcer.allowed_count + route.allowed,
                               challenged_count |->
                                   enforcer.challenged_count + route.challenged]
    /\ nops' = nops + 1
    /\ UNCHANGED <<now, REDACTION_LEVEL, THRESHOLDS, lockFile, procs>>

(* CORDEnforcer.evaluate_only(text, **proposal_kwargs) *)
EvaluateOnly(tool_name, text, proposal_kwargs) ==
    /\ nops < MaxOps /\ Len(log) < MaxLog
    /\ \E r \in {evaluate(Dict(<< <<"text", text>>, <<"tool_name", Str(tool_name)>>,
                                  <<"source", Str("agent")>>,
                                  <<"session_intent", Text(<<>>)>> >> \o proposal_kwargs),
                           RepoRoot, lockFile, log, now, REDACTION_LEVEL, THRESHOLDS)} :
          /\ log' = r.file
          /\ last' = [NoLast EXCEPT !.op = "evaluate_only", !.exc = r.exc, !.before = log,
                                    !.tool_name = tool_name, !.verdict = r.verdict,
                                    !.decision = r.verdict.decision]
          /\ enforcer' = IF r.exc # "none" THEN enforcer
                         ELSE [enforcer EXCEPT !.verdicts = Append(@, r.verdict)]
    /\ nops' = nops + 1
    /\ UNCHANGED <<now, REDACTION_LEVEL, THRESHOLDS, lockFile, procs>>

(* a verify_chain() that writes back the lines it accepted but the last *)
VerifyChain_rewriting ==
    /\ nops < MaxOps
    /\ \E r \in {verify_chain(log)} :
       /\ last' = [NoLast EXCEPT !.op = "verify_chain", !.exc = r.exc, !.before = log,
                                 !.valid = r.valid, !.count = r.count]
       /\ log' = SubSeq(log, 1, r.count - 1)
    /\ nops' = nops + 1
    /\ UNCHANGED <<now, REDACTION_LEVEL, THRESHOLDS, lockFile, procs, enforcer>>

(* verify_chain() *)
VerifyChain ==
    /\ nops < MaxOps
    /\ \E r \in {verify_chain(log)} :
       last' = [NoLast EXCEPT !.op = "verify_chain", !.exc = r.exc, !.before = log,
                              !.valid = r.valid, !.count = r.count]
    /\ nops' = nops + 1
    /\ UNCHANGED <<log, now, REDACTION_LEVEL, THRESHOLDS, lockFile, procs, enforcer>>

Next ==
    \/ \E i \in 1..Len(PayloadList) : AppendLog(PayloadList[i])
    \/ \E i \in 1..Len(ProposalList) : Evaluate(ProposalList[i])
    \/ \E i \in 1..Len(ToolCalls) : GuardedCall(ToolCalls[i], "absent")
    \/ \E i \in 1..Len(ToolCalls) : EnforcerCall(ToolCalls[i], "absent")
    \/ VerifyChain
    \/ Tick

Spec == Init /\ [][Next]_vars

(* ---------------- guarded calls under reconfigured thresholds --------- *)
(* policies.THRESHOLDS of a deployment that sets block above challenge *)
ReconfiguredThresholds == [contain |-> 5, challenge |-> 7, block |-> 9]

(* ---------------- decide on drawn scores and check results ------------ *)
ResultLists ==
    LET Plain(score) == CheckResult("security_check", "Article VII", score, <<>>, FALSE)
        Hard(score) == CheckResult("moral_check", "Article II", score, <<>>, TRUE)
    IN
    << <<>>, <<Plain(0)>>, <<Plain(Pt(6))>>, <<Hard(0)>>, <<Hard(Pt(10))>>,
       <<Plain(Pt(2)), Hard(0)>>, <<Hard(Pt(2)), Plain(0)>>, <<Plain(Pt(4)), Plain(Pt(4))>>,
       <<Plain(Pt(3))>>, <<Plain(-Pt(2)), Plain(Pt(6))>> >>

InitDecide ==
    /\ log = <<>>
    /\ now = 0
    /\ REDACTION_LEVEL = "pii"
    /\ THRESHOLDS \in {DefaultThresholds, ReconfiguredThresholds}
    /\ lockFile \in {<<"absent">>, ValidLock}
    /\ \E s \in {n * Unit + d : n \in (-1)..MaxScore, d \in {-3, 0, 3}}, i \in 1..Len(ResultLists) :
          last = [NoLast EXCEPT !.op = "input", !.score = s,
                                !.check_results = ResultLists[i]]
    /\ procs = <<>>
    /\ enforcer = NewEnforcer
    /\ nops = 0

(* decide(score, check_results) on the drawn input *)
Decide ==
    /\ last.op = "input"
    /\ last' = [last EXCEPT !.op = "decide",
                   !.decision = decide(last.score, last.check_results, THRESHOLDS)]
    /\ UNCHANGED <<log, now, REDACTION_LEVEL, THRESHOLDS, lockFile, procs, enforcer, nops>>

(* check results with score > 0 that a further check may add *)
FlaggedResults ==
    << CheckResult("temperament_check", "Article X", Pt(1), <<>>, FALSE),
       CheckResult("temperament_check", "Article X", Pt(10), <<>>, FALSE),
       CheckResult("temperament_check", "Article X", Pt(14), <<>>, FALSE),
       CheckResult("moral_check", "Article II", Pt(4), <<>>, FALSE),
       CheckResult("authentication", "CORD", Pt(4), <<>>, FALSE),
       CheckResult("scope_check", "CORD", Pt(2), <<>>, TRUE) >>

(* steps 6 and 7 on the drawn results, and on the results with c appended *)
Combine(c) ==
    LET DecisionOf(check_results, thresholds) ==
            decide(compute_composite_score(check_results) + detect_anomaly(check_results),
                   check_results, thresholds)
    IN
    /\ last.op = "input"
    /\ last' = [last EXCEPT !.op = "combine", !.added = <<c>>,
                   !.decision = DecisionOf(last.check_results, THRESHOLDS),
                   !.decision_after =
                       DecisionOf(Append(last.check_results, c), THRESHOLDS)]
    /\ UNCHANGED <<log, now, REDACTION_LEVEL, THRESHOLDS, lockFile, procs, enforcer, nops>>

NextDecide ==
    \/ Decide
    \/ \E i \in 1..Len(FlaggedResults) : Combine(FlaggedResults[i])
    \/ \E i \in 1..Len(ProposalList) : last.op = "input" /\ Evaluate(ProposalList[i])

SpecDecide == InitDecide /\ [][NextDecide]_vars

(* guarded calls, evaluations and decide under either thresholds *)
InitGuard ==
    /\ log = <<>>
    /\ now = 0
    /\ REDACTION_LEVEL = "pii"
    /\ THRESHOLDS \in {DefaultThresholds, ReconfiguredThresholds}
    /\ lockFile = <<"absent">>
    /\ \/ last = NoLast
       \/ \E s \in {n * Unit + d : n \in (-1)..MaxScore, d \in {-3, 0, 3}}, i \in 1..Len(ResultLists) :
             last = [NoLast EXCEPT !.op = "input", !.score = s,
                                   !.check_results = ResultLists[i]]
    /\ procs = <<>>
    /\ enforcer = NewEnforcer
    /\ nops = 0

NextGuard ==
    \/ \E i \in 1..Len(ToolCalls), h \in {"absent", "approve", "deny"} : GuardedCall(ToolCalls[i], h)
    \/ \E i \in 1..Len(ToolCalls), h \in {"absent", "approve", "deny"} : EnforcerCall(ToolCalls[i], h)
    \/ \E i \in 1..Len(ProposalList) : Evaluate(ProposalList[i])
    \/ \E t \in {"read", "exec"}, x \in {"status", "rm -rf /", "buy"},
          k \in {<<>>, << <<"context", Dict(<< <<"financial_amount", Str("100")>> >>)>> >>} :
          EvaluateOnly(t, Str(x), k)
    \/ Decide

SpecGuard == InitGuard /\ [][NextGuard]_vars


(* proposals evaluated under a lock: a command, targets in scope, path and
   network out of scope, a command outside the allowed commands on a sibling
   of the repository, network out of scope, everything out of scope *)
LockProposals ==
    << Dict(<< <<"text", Text(<<"git", "status">>)>> >>),
       Dict(<< <<"text", Text(<<"update", "site">>)>>, <<"target_path", Str("/repo/a.txt")>>,
            <<"network_target", Str("api.github.com")>> >>),
       Dict(<< <<"text", Text(<<"update", "site">>)>>, <<"target_path", Str("/etc/passwd")>>,
            <<"network_target", Str("evil.example")>> >>),
       Dict(<< <<"text", Text(<<"npm", "update", "site">>)>>,
            <<"target_path", Str("/repo-other/x")>> >>),
       Dict(<< <<"text", Text(<<"update", "site">>)>>,
            <<"network_target", Str("evil.example")>> >>),
       Dict(<< <<"text", Text(<<"npm", "install">>)>>, <<"target_path", Str("/etc/passwd")>>,
            <<"network_target", Str("evil.example")>> >>),
       Dict(<< <<"text", Text(<<"Fix", "the", "page">>)>> >>),
       Dict(<< <<"text", Text(<<"git", "status">>)>>,
            <<"session_intent", Text(<<"Update", "site">>)>> >>),
       Dict(<< <<"text", Text(<<"git", "status">>)>>,
            <<"session_intent", Text(<<"publish", "site">>)>> >>),
       Dict(<< <<"text", Text(<<"Do", "it">>)>> >>) >>

(* ---------------- evaluations after a burst of evaluations ------------ *)
(* the log after n more evaluations that returned ALLOW, all at the same
   second: n appends to file, the first half of them and then the rest;
   the file is read before anything is appended to it *)
RECURSIVE Burst(_, _, _)
Burst(file, n, clock) ==
    IF Len(file) + n = Len(file) THEN file
    ELSE IF n = 1
    THEN append_log(<< <<"decision", Str("ALLOW")>>, <<"score", Num(200)>>,
                       <<"proposal", Str("status")>> >>, file, clock, "pii").file
    ELSE Burst(Burst(file, n \div 2, clock), n - (n \div 2), clock)

(* the burst is of 0 to MaxBurst evaluations at second 100; the clock reads
   the same second, the last second of the window, or the first after it *)
InitRate ==
    /\ \E n \in {0, 1, 20, 29, 30, 31, 39, 40, 41, MaxBurst - 2, MaxBurst - 1, MaxBurst} :
          log = Burst(<<>>, n, 100)
    /\ now \in {100, 100 + RateWindow, 101 + RateWindow}
    /\ REDACTION_LEVEL = "pii"
    /\ THRESHOLDS = DefaultThresholds
    /\ lockFile \in {<<"absent">>, ValidLock}
    /\ last = NoLast
    /\ procs = <<>>
    /\ enforcer = NewEnforcer
    /\ nops = 0

(* check_rate_limit(window_seconds, max_count) *)
CheckRateLimit(window_seconds, max_count) ==
    /\ nops < MaxOps
    /\ \E r \in {check_rate_limit(window_seconds, max_count, log, now)} :
       last' = [NoLast EXCEPT !.op = "check_rate_limit", !.exc = r.exc, !.before = log,
                              !.exceeded = r.exceeded, !.count = r.count,
                              !.max_count = max_count]
    /\ nops' = nops + 1
    /\ UNCHANGED <<log, now, REDACTION_LEVEL, THRESHOLDS, lockFile, procs, enforcer>>

NextRate ==
    \/ \E i \in 1..Len(LockProposals) : EvaluateOn(LockProposals[i])
    \/ \E i \in 1..Len(ProposalList) : EvaluateOn(ProposalList[i])
    \/ \E m \in {0, 20, RateMax} : CheckRateLimit(RateWindow, m)

SpecRate == InitRate /\ [][NextRate]_vars

(* ---------------- the intent lock file: set, load, verify -------------- *)
(* lock files that are not a valid lock: not JSON, JSON but no object, an
   object without passphrase_hash, an object whose scope is a list *)
CorruptLocks ==
    << Garbage, List(<<>>),
       Dict(<< <<"user_id", Str("alex")>>, <<"intent_text", Str("site")>> >>),
       Dict(<< <<"user_id", Str("alex")>>, <<"intent_text", Str("site")>>,
               <<"passphrase_hash", sha(<<"pw">>)>>, <<"scope", List(<<>>)>> >>) >>

(* scope arguments of set_intent_lock: none, snake_case keys, camelCase keys *)
ScopeArgs ==
    << <<>>,
       << <<"allow_paths", List(<<"/repo/a.txt", "/repo">>)>>,
          <<"allow_commands", List(<<"git">>)>>,
          <<"allow_network_targets", List(<<"github.com">>)>> >>,
       << <<"allowPaths", List(<<"/repo">>)>> >> >>

InitLock ==
    /\ log = <<>> /\ now = 0 /\ REDACTION_LEVEL = "pii" /\ THRESHOLDS = DefaultThresholds
    /\ \/ lockFile \in {<<"absent">>, ValidLock}
       \/ \E i \in 1..Len(CorruptLocks) : lockFile = CorruptLocks[i]
       \* a lock file written by another tool, its scope keys in camelCase
       \/ lockFile = Dict(Put(ValidLock[2], "scope",
                       Dict(<< <<"allowPaths", List(<<"/repo">>)>>,
                               <<"allowCommands", List(<<"git">>)>>,
                               <<"allowNetworkTargets", List(<<"github.com">>)>> >>)))
    /\ last = NoLast /\ procs = <<>> /\ enforcer = NewEnforcer /\ nops = 0

(* set_intent_lock(user_id, passphrase, intent_text, scope) *)
SetIntentLock(user_id, passphrase, intent_text, scope) ==
    /\ nops < MaxOps
    /\ \E r \in {set_intent_lock(user_id, passphrase, intent_text, scope, lockFile, now)} :
       /\ lockFile' = r.file
       /\ last' = [NoLast EXCEPT !.op = "set_intent_lock", !.exc = r.exc,
                                 !.args = <<user_id, passphrase, intent_text, scope>>,
                                 !.lock_before = lockFile,
                                 !.held = IF r.exc = "none"
                                          THEN <<user_id, passphrase, intent_text, scope>>
                                          ELSE last.held]
    /\ nops' = nops + 1
    /\ UNCHANGED <<log, now, REDACTION_LEVEL, THRESHOLDS, procs, enforcer>>

(* load_intent_lock() *)
LoadIntentLock ==
    /\ nops < MaxOps
    /\ \E r \in {load_intent_lock(lockFile)} :
       last' = [NoLast EXCEPT !.op = "load_intent_lock", !.exc = r.exc,
                              !.lock = IF r.exc = "none" THEN r.val ELSE NoLock,
                              !.lock_before = lockFile, !.held = last.held]
    /\ nops' = nops + 1
    /\ UNCHANGED <<log, now, REDACTION_LEVEL, THRESHOLDS, lockFile, procs, enforcer>>

(* verify_passphrase(attempt) *)
VerifyPassphrase(attempt) ==
    /\ nops < MaxOps
    /\ \E r \in {verify_passphrase(attempt, lockFile)} :
       last' = [NoLast EXCEPT !.op = "verify_passphrase", !.exc = r.exc,
                              !.args = <<attempt>>,
                              !.ok = IF r.exc = "none" THEN r.val ELSE FALSE,
                              !.lock_before = lockFile, !.held = last.held]
    /\ nops' = nops + 1
    /\ UNCHANGED <<log, now, REDACTION_LEVEL, THRESHOLDS, lockFile, procs, enforcer>>

(* _scope_check(proposal, lock, repo_root) called on a lock object: no lock,
   a lock whose scope is None, the lock the file holds *)
ScopeCheck(raw, lock) ==
    /\ nops < MaxOps
    /\ last' = [NoLast EXCEPT !.op = "scope_check", !.proposal = raw, !.lock = lock,
                              !.check_results =
                                  scope_check(normalize_step(Proposal(raw)), lock, RepoRoot),
                              !.lock_before = lockFile, !.held = last.held]
    /\ nops' = nops + 1
    /\ UNCHANGED <<log, now, REDACTION_LEVEL, THRESHOLDS, lockFile, procs, enforcer>>

(* Scope(allow_paths=allow_paths).is_path_allowed(target_path, repo_root) *)
IsPathAllowed(target_path, allow_paths) ==
    /\ nops < MaxOps
    /\ last' = [NoLast EXCEPT !.op = "is_path_allowed",
                              !.args = <<target_path, allow_paths>>,
                              !.ok = is_path_allowed([NoLock EXCEPT !.allow_paths = allow_paths],
                                                     target_path, RepoRoot),
                              !.lock_before = lockFile, !.held = last.held]
    /\ nops' = nops + 1
    /\ UNCHANGED <<log, now, REDACTION_LEVEL, THRESHOLDS, lockFile, procs, enforcer>>

NextLock ==
    \/ \E user_id \in {<<>>, <<"alex">>}, passphrase \in {<<>>, <<"pw">>, <<"pw2">>},
          intent_text \in {<<>>, <<"update", "site">>, <<"Update", "Site">>, <<"do", "it">>},
          i \in 1..Len(ScopeArgs) :
          SetIntentLock(user_id, passphrase, intent_text, ScopeArgs[i])
    \/ LoadIntentLock
    \/ \E attempt \in {<<>>, <<"pw">>, <<"pw2">>} : VerifyPassphrase(attempt)
    \/ \E i \in 1..Len(LockProposals) : EvaluateOn(LockProposals[i])
    \/ \E i \in 1..Len(LockProposals), r \in {load_intent_lock(lockFile)} :
          \E lock \in {NoLock, [load_intent_lock(ValidLock).val EXCEPT !.has_scope = FALSE],
                       IF r.exc = "none" THEN r.val ELSE NoLock} :
             ScopeCheck(LockProposals[i], lock)
    \/ \E target_path \in {<<>>, <<"/repo">>, <<"/repo/a.txt">>, <<"/repo-other/x">>,
                            <<"/etc/passwd">>},
          allow_paths \in {<<>>, <<"/repo">>, <<"/repo/a.txt">>, <<"/repo/a.txt", "/repo">>} :
          IsPathAllowed(target_path, allow_paths)

SpecLock == InitLock /\ [][NextLock]_vars

(* ---------------- the two files under all the operations -------------- *)
InitFrame ==
    /\ log \in {<<>>, Burst(<<>>, 1, 0)}
    /\ now = 0 /\ REDACTION_LEVEL = "pii" /\ THRESHOLDS = DefaultThresholds
    /\ lockFile \in {<<"absent">>, ValidLock}
    /\ last = NoLast /\ procs = <<>> /\ enforcer = NewEnforcer /\ nops = 0

NextFrame ==
    \/ \E i \in {1, 3} : EvaluateOn(LockProposals[i])
    \/ \E i \in {1, 2} : GuardedCall(ToolCalls[i], "absent")
    \/ \E i \in {1, 2} : EnforcerCall(ToolCalls[i], "absent")
    \/ \E passphrase \in {<<>>, <<"pw">>} :
          SetIntentLock(<<"alex">>, passphrase, <<"update", "site">>, ScopeArgs[2])
    \/ LoadIntentLock
    \/ \E attempt \in {<<"pw">>, <<"pw2">>} : VerifyPassphrase(attempt)
    \/ VerifyChain
    \/ CheckRateLimit(RateWindow, RateMax)

SpecFrame == InitFrame /\ [][NextFrame]_vars

(* ---------------- the intent lock file while it is overwritten -------- *)
(* a lock set_intent_lock has written *)
InitLockConc ==
    /\ log = <<>> /\ now = 0 /\ REDACTION_LEVEL = "pii" /\ THRESHOLDS = DefaultThresholds
    /\ lockFile = set_intent_lock(<<"alex">>, <<"pw">>, <<"update", "site">>, ScopeArgs[2],
                                  <<"absent">>, 0).file
    /\ last = NoLast /\ procs = <<>> /\ enforcer = NewEnforcer /\ nops = 0

(* set_intent_lock up to the open() of lock_path.write_text: the arguments
   are valid, the file is opened for writing and so truncated; its text is
   no JSON until the write has happened *)
OpenLockFile(intent_text, scope) ==
    /\ nops < MaxOps /\ procs = <<>>
    /\ \E r \in {set_intent_lock(<<"alex">>, <<"pw">>, intent_text, scope, lockFile, now)} :
       /\ r.exc = "none"
       /\ procs' = << [pc |-> "write", entry |-> r.file, prev_hash |-> Null, clock |-> now] >>
    /\ lockFile' = Garbage
    /\ last' = [NoLast EXCEPT !.op = "open", !.lock_before = lockFile]
    /\ nops' = nops + 1
    /\ UNCHANGED <<log, now, REDACTION_LEVEL, THRESHOLDS, enforcer>>

(* the write and close of lock_path.write_text *)
WriteLockFile ==
    /\ procs # <<>>
    /\ lockFile' = procs[1].entry
    /\ procs' = <<>>
    /\ last' = [NoLast EXCEPT !.op = "write", !.lock_before = lockFile]
    /\ UNCHANGED <<log, now, REDACTION_LEVEL, THRESHOLDS, enforcer, nops>>

NextLockConc ==
    \/ \E intent_text \in {<<"update", "site">>, <<"publish", "site">>},
          i \in 1..Len(ScopeArgs) : OpenLockFile(intent_text, ScopeArgs[i])
    \/ WriteLockFile
    \/ LoadIntentLock
    \/ \E attempt \in {<<"pw">>, <<"pw2">>} : VerifyPassphrase(attempt)
    \/ \E i \in 1..Len(LockProposals) : EvaluateOn(LockProposals[i])

SpecLockConc == InitLockConc /\ [][NextLockConc]_vars

(* ---------------- the log file under outside writes ------------------- *)
RECURSIVE ChainOf(_)
ChainOf(n) ==
    IF n = 0 THEN <<>>
    ELSE append_log(<< <<"decision", Str("ALLOW")>>, <<"proposal", Str("status")>>,
                       <<"i", Num(n)>> >>, ChainOf(n - 1), 0, "pii").file

InitEnv ==
    /\ \E n \in 0..MaxChain : log = ChainOf(n)
    /\ now = 0
    /\ REDACTION_LEVEL = "pii"
    /\ THRESHOLDS = DefaultThresholds
    /\ lockFile = <<"absent">>
    /\ last = NoLast
    /\ procs = <<>>
    /\ enforcer = NewEnforcer
    /\ nops = 0

(* somebody edits a payload field of entry i in place, hashes untouched *)
Tamper(i, field) ==
    /\ i \in 1..Len(log) /\ IsDict(log[i]) /\ Has(log[i][2], field)
    /\ verify_chain(log).exc = "none" /\ verify_chain(log).valid
    /\ log' = [log EXCEPT ![i] = Dict(Put(log[i][2], field, Str("tampered")))]
    /\ last' = [NoLast EXCEPT !.op = "tamper", !.before = log, !.index = i - 1]
    /\ UNCHANGED <<now, REDACTION_LEVEL, THRESHOLDS, lockFile, procs, enforcer, nops>>

(* somebody appends a line to the file *)
WriteLine(line) ==
    /\ Len(log) <= MaxChain
    /\ log' = WriteTo(log, line)
    /\ last' = [NoLast EXCEPT !.op = "write", !.before = log, !.index = Len(log)]
    /\ UNCHANGED <<now, REDACTION_LEVEL, THRESHOLDS, lockFile, procs, enforcer, nops>>

(* somebody removes entry i from the file *)
DeleteEntry(i) ==
    /\ nops < MaxOps /\ i \in 1..Len(log)
    /\ log' = SubSeq(log, 1, i - 1) \o SubSeq(log, i + 1, Len(log))
    /\ last' = [NoLast EXCEPT !.op = "delete", !.before = log, !.index = i - 1]
    /\ nops' = nops + 1
    /\ UNCHANGED <<now, REDACTION_LEVEL, THRESHOLDS, lockFile, procs, enforcer>>

(* somebody who is not append_log puts an entry of their own at place i:
   one with made-up hashes, or one whose hashes they computed from the
   entry before it (the hash is an unkeyed SHA-256 of the entry's text) *)
InsertEntry(i, computed) ==
    /\ nops < MaxOps /\ i \in 1..(Len(log) + 1) /\ Len(log) <= MaxChain
    /\ log' = SubSeq(log, 1, i - 1)
               \o << IF computed
                     THEN build_entry(<< <<"decision", Str("ALLOW")>>,
                                         <<"proposal", Str("forged")>> >>,
                                      get_prev_hash(SubSeq(log, 1, i - 1)).val,
                                      now, "none")
                     ELSE Dict(<< <<"decision", Str("ALLOW")>>,
                                  <<"proposal", Str("forged")>>,
                                  <<"prev_hash", Str("x")>>,
                                  <<"entry_hash", Str("x")>> >>) >>
               \o SubSeq(log, i, Len(log))
    /\ last' = [NoLast EXCEPT !.op = "insert", !.before = log, !.index = i - 1]
    /\ nops' = nops + 1
    /\ UNCHANGED <<now, REDACTION_LEVEL, THRESHOLDS, lockFile, procs, enforcer>>

NextEnv ==
    \/ \E i \in 1..MaxChain, f \in {"proposal", "decision"} : Tamper(i, f)
    \/ \E i \in 1..MaxChain : DeleteEntry(i)
    \/ \E i \in 1..(MaxChain + 1), computed \in BOOLEAN : InsertEntry(i, computed)
    \* lines that are not entries: not JSON, blank, JSON that is no object,
    \* the first part of the line a concurrent append is writing
    \/ \E i \in 1..5 : WriteLine(<<Garbage, <<"blank">>, List(<<>>), Num(5), Partial>>[i])
    \/ \E i \in 1..Len(PayloadList) : AppendLog(PayloadList[i])
    \/ VerifyChain
    \/ CheckRateLimit(RateWindow, RateMax)

SpecEnv == InitEnv /\ [][NextEnv]_vars

(* ---------------- concurrent append_log calls ------------------------- *)

InitConc ==
    /\ log = <<>>
    /\ now = 0
    /\ REDACTION_LEVEL = "pii"
    /\ THRESHOLDS = DefaultThresholds
    /\ lockFile = <<"absent">>
    /\ last = NoLast
    /\ procs = [p \in 1..MaxProcs |-> [pc |-> "idle", entry |-> <<>>, prev_hash |-> Null, clock |-> 0]]
    /\ enforcer = NewEnforcer
    /\ nops = 0

(* append_log, first half: _get_prev_hash reads the tail of the file *)
ReadTail(p, entry) ==
    /\ procs[p].pc = "idle"
    /\ nops < MaxAppends
    /\ \E prev \in {get_prev_hash(log)} :
          /\ prev.exc = "none"
          /\ procs' = [procs EXCEPT ![p] = [pc |-> "write", entry |-> entry,
                                            prev_hash |-> prev.val, clock |-> now]]
    /\ nops' = nops + 1
    /\ UNCHANGED <<log, now, REDACTION_LEVEL, THRESHOLDS, lockFile, last, enforcer>>

(* append_log, second half: the entry is built on the hash read and the
   line is written at the end of the file *)
WriteEntry(p) ==
    /\ procs[p].pc = "write"
    /\ log' = Append(log, build_entry(procs[p].entry, procs[p].prev_hash,
                                      procs[p].clock, REDACTION_LEVEL))
    /\ last' = [NoLast EXCEPT !.op = "append_log", !.before = log, !.index = p]
    /\ procs' = [procs EXCEPT ![p] = [pc |-> "idle", entry |-> <<>>, prev_hash |-> Null, clock |-> 0]]
    /\ UNCHANGED <<now, REDACTION_LEVEL, THRESHOLDS, lockFile, enforcer, nops>>

NextConc ==
    \/ \E p \in 1..MaxProcs, d \in {"ALLOW", "BLOCK"} :
          ReadTail(p, << <<"decision", Str(d)>> >>)
    \/ \E p \in 1..MaxProcs : WriteEntry(p)
    \/ Tick

SpecConc == InitConc /\ [][NextConc]_vars

(* ============================== claims =============================== *)

(* C1: from an empty log, after any sequence of sequential appends
   (append_log with any payload, evaluate, guarded calls) the log is a
   valid chain: verify_chain returns (true, n), n the number of entries. *)
C1_ChainValidAfterAppends ==
    /\ verify_chain(log).exc = "none"
    /\ verify_chain(log).valid
    /\ verify_chain(log).count = Len(log)

(* C2: appends are serialized: whatever the interleaving of concurrent
   append_log calls, no two entries carry the same prev_hash and the log
   is a valid chain. *)
C2_AppendsSerialized ==
    /\ \A i, j \in 1..Len(log) :
          i # j => Get(log[i][2], "prev_hash") # Get(log[j][2], "prev_hash")
    /\ verify_chain(log).valid

(* C3: whenever a check result has hard_block set, decide returns BLOCK
   whatever the score, and so does the verdict of an evaluation whose
   results hold a hard block. *)
C3_HardBlockDominates ==
    (last.op \in {"decide", "evaluate"} /\ has_hard_block(last.check_results))
        => last.decision = "BLOCK"

C3_HardBlockAtLowScore ==
    /\ last.op = "decide" /\ has_hard_block(last.check_results)
    /\ last.score <= 0 /\ last.decision = "BLOCK"

(* C4: with the default thresholds and no hard block, decide gives ALLOW
   below 5, CONTAIN from 5 up to but not including 7, BLOCK from 7 on
   (the boundaries 4.99, 5.00, 6.99, 7.00, 0 and negative scores included). *)
C4_DefaultThresholdMapping ==
    (/\ last.op = "decide" /\ THRESHOLDS = DefaultThresholds
     /\ ~has_hard_block(last.check_results))
        => last.decision = (IF last.score < 5 * Unit THEN "ALLOW"
                            ELSE IF last.score < 7 * Unit THEN "CONTAIN"
                            ELSE "BLOCK")

C4_ContainAtExactlyFive ==
    /\ last.op = "decide" /\ THRESHOLDS = DefaultThresholds
    /\ ~has_hard_block(last.check_results)
    /\ last.score = 5 * Unit /\ last.decision = "CONTAIN"

(* C5: a guarded call whose verdict is ALLOW or CONTAIN runs the callable
   once and returns its result; on BLOCK it raises ToolBlocked carrying the
   verdict, the tool name and the args summary and never runs the callable;
   on CHALLENGE it runs the callable only if an on_challenge handler is
   present and approves, and raises ToolChallenged otherwise. *)
C5_GuardRouting ==
    (last.op \in {"guard", "enforcer"} /\ last.verdict.decision \in {"ALLOW", "CONTAIN", "CHALLENGE", "BLOCK"}) =>
        /\ last.verdict.decision \in {"ALLOW", "CONTAIN"} =>
              /\ last.invoked = 1 /\ last.raised = NoException
              /\ last.returned = FnResult(last.args, last.kwargs)
        /\ last.verdict.decision = "BLOCK" =>
              /\ last.invoked = 0
              /\ last.raised = [type |-> "ToolBlocked", verdict |-> last.verdict,
                                tool_name |-> last.tool_name,
                                args_summary |-> summarize_args(last.args, last.kwargs)]
        /\ last.verdict.decision = "CHALLENGE" =>
              IF last.on_challenge = "approve"
              THEN /\ last.invoked = 1 /\ last.asked = 1 /\ last.raised = NoException
                   /\ last.returned = FnResult(last.args, last.kwargs)
              ELSE /\ last.invoked = 0 /\ last.raised.type = "ToolChallenged"
                   /\ last.raised.verdict = last.verdict

C5_ChallengeApproved ==
    /\ last.op = "guard" /\ last.verdict.decision = "CHALLENGE"
    /\ last.on_challenge = "approve" /\ last.invoked = 1

(* C6: evaluate never raises: it returns a verdict with one of the four
   decisions for every proposal and every state of the lock and log files. *)
C6_EvaluateNeverRaises ==
    last.op = "evaluate" => (last.exc = "none" /\ last.verdict.decision \in {"ALLOW", "CONTAIN", "CHALLENGE", "BLOCK"})

RECURSIVE HoldsPII(_)
HoldsPII(v) ==
    CASE v[1] = "text" -> \E i \in 1..Len(v[2]) : RedactTok(v[2][i]) # v[2][i]
      [] v[1] = "list" -> \E i \in 1..Len(v[2]) : HoldsPII(v[2][i])
      [] v[1] = "dict" -> \E i \in 1..Len(v[2]) : HoldsPII(v[2][i][2])
      [] OTHER -> FALSE

(* C7: at redaction level pii or full no audit entry holds, in its
   proposal, reasons, target_path, network_target, risk_profile or
   violations field, text matching the SSN, card, phone or email patterns. *)
C7_NoPIIInAuditEntries ==
    REDACTION_LEVEL \in {"pii", "full"} =>
        \A i \in 1..Len(log) : \A k \in 1..Len(log[i][2]) :
            log[i][2][k][1] \in {"proposal", "reasons", "target_path", "network_target",
                                  "risk_profile", "violations"}
                => ~HoldsPII(log[i][2][k][2])

(* line i (from 1) of the non-blank lines fails: it does not parse to an
   entry, or its prev_hash is not its predecessor's entry_hash (GENESIS
   for the first), or its entry_hash is not the hash recomputed *)
BadLine(lines, i) ==
    \/ ~IsDict(lines[i])
    \/ GetOr(lines[i][2], "prev_hash", Null)
          # (IF i = 1 THEN GENESIS ELSE GetOr(lines[i - 1][2], "entry_hash", Null))
    \/ GetOr(lines[i][2], "entry_hash", Null)
          # EntryHash(GetOr(lines[i][2], "prev_hash", Null),
                      Without(lines[i][2], "entry_hash"))

(* C8: for any log content verify_chain returns (true, n) or (false, i),
   i the zero-based index of the first line that fails to parse or breaks
   the chain. *)
C8_VerifyReportsFirstBadLine ==
    last.op = "verify_chain" =>
        /\ last.exc = "none"
        /\ IF last.valid
           THEN \A i \in 1..Len(Lines(last.before)) : ~BadLine(Lines(last.before), i)
           ELSE /\ last.count + 1 \in 1..Len(Lines(last.before))
                /\ BadLine(Lines(last.before), last.count + 1)
                /\ \A i \in 1..last.count : ~BadLine(Lines(last.before), i)

(* C9: every engine operation (append_log, evaluate, a guarded call)
   leaves the lines already in the log unchanged and adds exactly one line
   at the end. *)
C9_AppendOnlyOneLinePerOperation ==
    [][(nops' # nops /\ last'.op \in {"append_log", "evaluate", "guard", "enforcer"}) =>
          (Len(log') = Len(log) + 1 /\ SubSeq(log', 1, Len(log)) = log)]_vars

(* C10: every call of evaluate appends exactly one entry, whose decision
   and score are the verdict's and whose entry_hash is the verdict's
   log_id, linked to the entry before it. *)
C10_OneEntryPerEvaluate ==
    [][(nops' # nops /\ last'.op = "evaluate") =>
          /\ Len(log') = Len(log) + 1
          /\ SubSeq(log', 1, Len(log)) = log
          /\ Get(log'[Len(log')][2], "decision") = Str(last'.verdict.decision)
          /\ Get(log'[Len(log')][2], "score") = Num(last'.verdict.score)
          /\ Get(log'[Len(log')][2], "entry_hash") = last'.verdict.log_id
          /\ Get(log'[Len(log')][2], "prev_hash") = get_prev_hash(log).val]_vars

(* the order ALLOW < CONTAIN < CHALLENGE < BLOCK *)
Rank(decision) ==
    CASE decision = "ALLOW" -> 0 [] decision = "CONTAIN" -> 1
      [] decision = "CHALLENGE" -> 2 [] decision = "BLOCK" -> 3

(* C11: decision monotonicity: the decision computed from a list of check
   results with one more result of score > 0 appended is at least as
   severe as the decision computed from the list itself. *)
C11_DecisionMonotone ==
    (last.op = "combine" /\ last.added[1].score > 0)
        => Rank(last.decision_after) >= Rank(last.decision)

C11_AllowMovesToContain ==
    /\ last.op = "combine" /\ last.added[1].score > 0
    /\ last.decision = "ALLOW" /\ last.decision_after = "CONTAIN"

(* the entries of a log file stamped within the window that ends at clock *)
RecentCount(file, clock) ==
    Cardinality({i \in 1..Len(file) :
        /\ IsDict(file[i]) /\ Has(file[i][2], "timestamp")
        /\ Get(file[i][2], "timestamp")[1] = "ts"
        /\ Get(file[i][2], "timestamp")[2] >= clock - RateWindow})

RateResults(check_results) ==
    SelectSeq(check_results, LAMBDA r : r.dimension = "rate_anomaly")

(* C12: an evaluation counts the entries of the last 60 seconds before it
   appends its own; with c that count, it produces no rate_anomaly result
   when c <= 30 and one of score min(2.0 + c/30, 5.0) when c > 30, a hard
   block exactly when c >= 40 and c > 60; check_rate_limit reports exceeded
   iff count >= max_count. *)
C12_RateLimitInPipeline ==
    /\ (last.op = "evaluate" /\ last.exc = "none") =>
          LET c == RecentCount(last.before, now)
              rate == RateResults(last.check_results)
          IN /\ Len(log) = Len(last.before) + 1
             /\ c <= 30 => rate = <<>>
             /\ c > 30 =>
                   /\ Len(rate) = 1
                   /\ rate[1].score = Min(Pt(4) + c * (Unit \div 30), Pt(10))
                   /\ rate[1].hard_block = (c >= 40 /\ c > 60)
    /\ (last.op = "check_rate_limit" /\ last.exc = "none") =>
          /\ last.count = RecentCount(last.before, now)
          /\ last.exceeded = (last.count >= last.max_count)

(* C13: a proposal with text "git status" and no grants, tool, targets or
   context, evaluated with no intent lock, is never blocked: its decision is
   ALLOW or CONTAIN whatever evaluations the audit log already holds *)
C13_GitStatusNeverBlocked ==
    (last.op = "evaluate" /\ last.proposal = LockProposals[1] /\ lockFile = <<"absent">>)
        => (last.exc = "none" /\ last.decision \in {"ALLOW", "CONTAIN"})

(* C14: a lock file that is not a valid lock behaves like an absent one:
   load_intent_lock returns no lock and does not raise, verify_passphrase
   answers false, and evaluate gives the authentication result with score 2.0
   and neither a scope_check nor an intent_drift result *)
C14_CorruptLockIsAbsent ==
    (\E i \in 1..Len(CorruptLocks) : lockFile = CorruptLocks[i])
        => /\ last.op = "load_intent_lock" => (last.exc = "none" /\ ~last.lock.present)
           /\ last.op = "verify_passphrase" => (last.exc = "none" /\ ~last.ok)
           /\ last.op = "evaluate"
                => /\ last.exc = "none"
                   /\ \E j \in 1..Len(last.check_results) :
                         /\ last.check_results[j].dimension = "authentication"
                         /\ last.check_results[j].score = Pt(4)
                   /\ \A j \in 1..Len(last.check_results) :
                         last.check_results[j].dimension \notin {"scope_check", "intent_drift"}

(* the scope_check results among the check results *)
ScopeResults(check_results) ==
    SelectSeq(check_results, LAMBDA c : c.dimension = "scope_check")

(* C15: with a lock, the scope check scores 2.0 for a non-empty target path
   that is not path-allowed, plus 2.0 for a non-empty network target that is
   not network-allowed, plus 1.0 for a command or system action whose text is
   not command-allowed; a scope_check result is emitted exactly when the sum
   is positive, it is a hard block exactly when the sum is at least 4, a
   proposal violating both path and network scope is blocked, and without a
   lock or without a scope there is no scope_check result *)
C15_ScopeCheckScores ==
    (last.op \in {"evaluate", "scope_check"} /\ last.exc = "none")
        => LET lock == IF last.op = "scope_check" THEN last.lock
                       ELSE load_intent_lock(lockFile).val
               proposal == normalize_step(Proposal(last.proposal))
               path == proposal.target_path # <<>>
                       /\ ~is_path_allowed(lock, proposal.target_path, RepoRoot)
               network == proposal.network_target # <<>>
                          /\ ~is_network_allowed(lock, proposal.network_target)
               command == proposal.action_type \in {"command", "system"}
                          /\ ~is_command_allowed(lock, proposal.text)
               sum == (IF path THEN Pt(4) ELSE 0) + (IF network THEN Pt(4) ELSE 0)
                      + (IF command THEN Pt(2) ELSE 0)
               found == ScopeResults(last.check_results)
           IN IF ~lock.present \/ ~lock.has_scope THEN found = <<>>
              ELSE /\ Len(found) = IF sum > 0 THEN 1 ELSE 0
                   /\ found # <<>> => /\ found[1].score = sum
                                      /\ found[1].hard_block = (sum >= Pt(8))
                   /\ (path /\ network /\ last.op = "evaluate") => last.decision = "BLOCK"

(* an evaluation under a lock that violates path and network scope *)
C15_PathAndNetworkOutOfScope ==
    /\ last.op = "evaluate" /\ last.exc = "none" /\ last.decision = "BLOCK"
    /\ ScopeResults(last.check_results) # <<>>
    /\ ScopeResults(last.check_results)[1].score = Pt(8)
    /\ ScopeResults(last.check_results)[1].hard_block

(* a is under b: b is a itself or one of its ancestor directories *)
Under(a, b) == a = b \/ <<a, b>> \in {<<"/repo/a.txt", "/repo">>}

(* C16: is_path_allowed is true exactly when the target is empty, or the
   resolved path is under the repository root and under at least one
   allow_paths entry; a sibling such as /repo-other/x is not under /repo, and
   an empty allow_paths denies every non-empty target *)
C16_PathAllowedIffUnder ==
    last.op = "is_path_allowed"
        => (last.ok <=> \/ last.args[1] = <<>>
                        \/ /\ Under(last.args[1][1], RepoRoot)
                           /\ \E i \in 1..Len(last.args[2]) :
                                 Under(last.args[1][1], last.args[2][i]))

(* C17: set_intent_lock raises ValueError whenever user_id, passphrase or
   intent_text is empty, and then the lock file is exactly as it was: none is
   created and an existing one is not modified *)
C17_EmptyArgumentRejected ==
    (last.op = "set_intent_lock"
        /\ (last.args[1] = <<>> \/ last.args[2] = <<>> \/ last.args[3] = <<>>))
        => (last.exc = "ValueError" /\ lockFile = last.lock_before)

(* an empty passphrase is refused while a lock exists *)
C17_RefusedOverExistingLock ==
    /\ last.op = "set_intent_lock" /\ last.exc = "ValueError"
    /\ last.args[1] # <<>> /\ last.args[2] = <<>> /\ last.args[3] # <<>>
    /\ IsDict(last.lock_before) /\ lockFile = last.lock_before

(* the allowlist a scope argument gives under its snake_case or camelCase key *)
Allowlist(scope, snake, camel) ==
    IF Has(scope, snake) THEN Get(scope, snake)[2]
    ELSE IF Has(scope, camel) THEN Get(scope, camel)[2] ELSE <<>>

(* C18: after any sequence of set_intent_lock calls, load_intent_lock returns
   the user id, the intent text and the three allowlists of the most recent
   successful call, unchanged and in order, and verify_passphrase(a) is true
   exactly when the SHA-256 of a is the hash of that call's passphrase; the
   lock persists until the next successful set *)
C18_LoadReturnsLastSet ==
    last.held # <<>>
        => /\ \E r \in {load_intent_lock(lockFile)} :
                /\ r.exc = "none" /\ r.val.present
                /\ r.val.user_id = Text(last.held[1])
                /\ r.val.intent_text = last.held[3]
                /\ r.val.allow_paths = Allowlist(last.held[4], "allow_paths", "allowPaths")
                /\ r.val.allow_commands
                       = Allowlist(last.held[4], "allow_commands", "allowCommands")
                /\ r.val.allow_network_targets
                       = Allowlist(last.held[4], "allow_network_targets", "allowNetworkTargets")
                /\ last.op = "load_intent_lock" => (last.exc = "none" /\ last.lock = r.val)
           /\ \A a \in {<<>>, <<"pw">>, <<"pw2">>} :
                verify_passphrase(a, lockFile) = Ok(sha(a) = sha(last.held[2]))
           /\ last.op = "verify_passphrase"
                => (last.exc = "none" /\ last.ok = (sha(last.args[1]) = sha(last.held[2])))

(* a lock set with camelCase scope keys is loaded back *)
C18_LoadedAfterSet ==
    /\ last.op = "load_intent_lock" /\ last.held # <<>> /\ last.held[4] = ScopeArgs[3]
    /\ last.lock.present /\ last.lock.allow_paths = <<"/repo">>

(* C19: overwriting the intent lock is atomic: load_intent_lock,
   verify_passphrase and evaluate running while set_intent_lock overwrites a
   valid lock observe the complete previous lock or the complete new one,
   never an absent, empty or partly written lock *)
C19_OverwriteIsAtomic ==
    /\ last.op = "load_intent_lock" => (last.exc = "none" /\ last.lock.present)
    /\ (last.op = "verify_passphrase" /\ last.args[1] = <<"pw">>)
          => (last.exc = "none" /\ last.ok)
    /\ last.op = "evaluate"
          => /\ last.exc = "none"
             /\ \A j \in 1..Len(last.check_results) :
                   last.check_results[j].dimension # "authentication"

(* the file holds complete lines and then the first part of one more *)
EndsPartial(file) == file # <<>> /\ file[Len(file)] = Partial

(* the complete lines of such a file *)
Complete(file) == SubSeq(file, 1, Len(file) - 1)

(* C20: readers of the audit log discard an unterminated last line: read_log
   and check_rate_limit ignore it, verify_chain reports the chain of the
   complete entries as valid, and a new append links its prev_hash to the
   entry_hash of the last complete entry *)
C20_PartialLastLineDiscarded ==
    /\ EndsPartial(log) => read_log(log) = read_log(Complete(log))
    /\ (last.op = "check_rate_limit" /\ EndsPartial(last.before))
          => \E r \in {check_rate_limit(RateWindow, last.max_count, Complete(last.before), now)} :
                /\ last.exc = r.exc /\ last.count = r.count /\ last.exceeded = r.exceeded
    /\ (last.op = "verify_chain" /\ EndsPartial(last.before))
          => \E r \in {verify_chain(Complete(last.before))} :
                /\ last.exc = r.exc /\ last.valid = r.valid /\ last.count = r.count
    /\ (last.op = "append_log" /\ EndsPartial(last.before) /\ last.exc = "none")
          => \E i \in 1..Len(PayloadList) :
                last.verdict.log_id
                    = Get(build_entry(PayloadList[i], get_prev_hash(Complete(last.before)).val,
                                      now, REDACTION_LEVEL)[2], "entry_hash")

(* C21: every verdict has at least one alternative; a verdict whose
   decision is BLOCK has a non-empty reasons list (and an alternative);
   every check result with score > 0 or hard_block set carries at least
   one reason. *)
C21_VerdictsExplained ==
    (last.op \in {"evaluate", "guard", "enforcer"} /\ last.verdict.decision # "none")
        => /\ last.verdict.alternatives # <<>>
           /\ last.verdict.decision = "BLOCK" => last.verdict.reasons # <<>>
           /\ \A i \in 1..Len(last.check_results) :
                 (last.check_results[i].score > 0 \/ last.check_results[i].hard_block)
                     => last.check_results[i].reasons # <<>>

C21_BlockedWithReasons ==
    /\ last.op = "evaluate" /\ last.verdict.decision = "BLOCK"
    /\ last.verdict.reasons # <<>> /\ last.verdict.alternatives # <<>>
    /\ \E i \in 1..Len(last.check_results) : last.check_results[i].hard_block

(* C22: under the default thresholds (challenge = block = 7) CHALLENGE is
   unreachable: no decide and no evaluation returns CHALLENGE, no guarded
   call raises ToolChallenged or asks on_challenge, and the enforcer's
   challenged_count stays 0; under thresholds with block above challenge a
   score s with challenge <= s < block and no hard block gives CHALLENGE. *)
C22_ChallengeOnlyWhenReconfigured ==
    /\ THRESHOLDS = DefaultThresholds =>
          /\ enforcer.challenged_count = 0
          /\ last.decision # "CHALLENGE" /\ last.verdict.decision # "CHALLENGE"
          /\ last.raised.type # "ToolChallenged" /\ last.asked = 0
    /\ ( /\ THRESHOLDS.block > THRESHOLDS.challenge
         /\ last.op = "decide" /\ ~has_hard_block(last.check_results)
         /\ last.score >= THRESHOLDS.challenge * Unit
         /\ last.score < THRESHOLDS.block * Unit )
          => last.decision = "CHALLENGE"

C22_DefaultBlocksAtSeven ==
    /\ THRESHOLDS = DefaultThresholds /\ DefaultThresholds.challenge = DefaultThresholds.block
    /\ last.op = "decide" /\ ~has_hard_block(last.check_results)
    /\ last.score = DefaultThresholds.challenge * Unit /\ last.decision = "BLOCK"

(* C23: for a valid chain of n >= 2 entries written by append_log,
   removing any single entry makes verify_chain return false, and so does
   putting an entry that append_log did not write at any place. *)
C23_DeleteOrInsertBreaksChain ==
    (/\ last.op \in {"delete", "insert"}
     /\ \E n \in 2..MaxChain : last.before = ChainOf(n))
        => ~verify_chain(log).valid

(* C24: the counters of a CORDEnforcer.  Every call and every
   evaluate_only adds one verdict, so total_evaluations = len(verdicts) =
   number of invocations, and last_verdict is the verdict of the newest
   invocation; a call adds one to blocked_count exactly when its verdict
   is BLOCK and one to allowed_count exactly when its verdict is ALLOW or
   CONTAIN; evaluate_only changes none of blocked_count, allowed_count,
   challenged_count. *)
C24_EnforcerCounters ==
    [][ (last'.op \in {"enforcer", "evaluate_only"} /\ nops' = nops + 1) =>
          /\ Len(enforcer'.verdicts) = Len(enforcer.verdicts) + 1
          /\ enforcer'.verdicts[Len(enforcer'.verdicts)] = last'.verdict
          /\ last'.op = "enforcer" =>
                /\ enforcer'.blocked_count = enforcer.blocked_count
                       + (IF last'.verdict.decision = "BLOCK" THEN 1 ELSE 0)
                /\ enforcer'.allowed_count = enforcer.allowed_count
                       + (IF last'.verdict.decision \in {"ALLOW", "CONTAIN"} THEN 1 ELSE 0)
          /\ last'.op = "evaluate_only" =>
                /\ enforcer'.blocked_count = enforcer.blocked_count
                /\ enforcer'.allowed_count = enforcer.allowed_count
                /\ enforcer'.challenged_count = enforcer.challenged_count ]_vars

(* the lock file with the camelCase scope keys renamed to snake_case *)
SnakeCase(file) ==
    LET snake(k) == CASE k = "allowPaths" -> "allow_paths"
                      [] k = "allowCommands" -> "allow_commands"
                      [] k = "allowNetworkTargets" -> "allow_network_targets"
                      [] OTHER -> k
        scope == Get(file[2], "scope")[2]
    IN Dict(Put(file[2], "scope",
                Dict([i \in 1..Len(scope) |-> <<snake(scope[i][1]), scope[i][2]>>])))

(* C25: the loader tolerates camelCase scope keys: a lock file whose scope
   object uses allowPaths, allowCommands, allowNetworkTargets loads with
   the same three allowlists as the same file with allow_paths,
   allow_commands, allow_network_targets. *)
C25_CamelCaseScopeLoads ==
    (/\ last.op = "load_intent_lock" /\ IsDict(last.lock_before)
     /\ Has(last.lock_before[2], "scope") /\ IsDict(Get(last.lock_before[2], "scope"))
     /\ Has(Get(last.lock_before[2], "scope")[2], "allowPaths"))
        => /\ last.exc = "none" /\ last.lock.present
           /\ last.lock.allow_paths
                  = load_intent_lock(SnakeCase(last.lock_before)).val.allow_paths
           /\ last.lock.allow_commands
                  = load_intent_lock(SnakeCase(last.lock_before)).val.allow_commands
           /\ last.lock.allow_network_targets
                  = load_intent_lock(SnakeCase(last.lock_before)).val.allow_network_targets

(* the words of a text that are no stop words, in lower case *)
Meaningful(text) ==
    Words(Lower(text)) \ {"the", "a", "an", "to", "and", "or", "in", "on", "at",
                          "for", "of", "is", "it", "do"}

(* the words of the intent with, for each that is a key or a synonym of the
   synonym map, that key and all its synonyms *)
Expanded(words) ==
    words \cup {w \in UNION {Synonyms(SynonymKeys[k]) \cup {SynonymKeys[k]} :
                                k \in 1..Len(SynonymKeys)} :
                  \E k \in 1..Len(SynonymKeys), v \in words :
                     {w, v} \subseteq Synonyms(SynonymKeys[k]) \cup {SynonymKeys[k]}}

(* C26: with a lock, no intent_drift result if the proposal's session_intent
   is non-empty and equals the lock's intent text case-insensitively, or if
   the proposal's words without stop words meet the intent's words without
   stop words expanded by the synonym map; otherwise exactly one
   intent_drift result of score 1.5, so an intent of stop words only
   drifts; without a lock there is never an intent_drift result. *)
C26_IntentDrift ==
    (last.op = "evaluate" /\ last.exc = "none")
        => LET lock == load_intent_lock(lockFile).val
               proposal == Proposal(last.proposal)
               text == normalize(proposal.text).val
               found == SelectSeq(last.check_results,
                                  LAMBDA c : c.dimension = "intent_drift")
               declared == /\ proposal.session_intent # <<>>
                           /\ Lower(proposal.session_intent) = Lower(lock.intent_text)
               overlap == Meaningful(text) \cap Expanded(Meaningful(lock.intent_text)) # {}
           IN IF ~lock.present THEN found = <<>>
              ELSE IF declared \/ overlap THEN found = <<>>
              ELSE /\ Len(found) = 1 /\ 2 * found[1].score = 3 * Unit
                   /\ ~found[1].hard_block

(* a proposal that declares the lock's intent in another case and whose
   text has no word in common with it *)
C26_DeclaredInAnotherCase ==
    /\ last.op = "evaluate" /\ last.exc = "none"
    /\ load_intent_lock(lockFile).val.present
    /\ Proposal(last.proposal).session_intent # load_intent_lock(lockFile).val.intent_text
    /\ Lower(Proposal(last.proposal).session_intent)
           = Lower(load_intent_lock(lockFile).val.intent_text)
    /\ Meaningful(Proposal(last.proposal).text)
           \cap Expanded(Meaningful(load_intent_lock(lockFile).val.intent_text)) = {}
    /\ \A i \in 1..Len(last.check_results) :
          last.check_results[i].dimension # "intent_drift"

(* C27: every intercepted tool call appends its audit entry before the
   tool runs: the call leaves one more entry in the log however it ends
   (returning, ToolBlocked, ToolChallenged), so n guarded calls on an empty
   log leave n entries, and the tool runs only under a verdict that
   carries the hash of the entry written. *)
C27_EntryBeforeToolRuns ==
    last.op \in {"guard", "enforcer"}
        => /\ Len(log) = Len(last.before) + 1
           /\ SubSeq(log, 1, Len(last.before)) = last.before
           /\ last.invoked = 1
                 => last.verdict.log_id = Get(log[Len(log)][2], "entry_hash")

(* C28: without an intent lock (the file absent or corrupted) the decision
   is at least as severe (ALLOW < CONTAIN < CHALLENGE < BLOCK) as the
   decision on the same proposal and the same log with a valid lock. *)
C28_NoLockAtLeastAsSevere ==
    (/\ last.op = "evaluate" /\ last.exc = "none"
     /\ ~load_intent_lock(lockFile).val.present)
        => Rank(last.decision)
              >= Rank(evaluate(last.proposal, RepoRoot, ValidLock, last.before, now,
                               REDACTION_LEVEL, THRESHOLDS).verdict.decision)

(* C29: rate lock-out: whenever the log holds more than 30 entries of the
   last 60 seconds, evaluate returns BLOCK whatever the proposal, and the
   blocked evaluation is itself appended and counted, so the lock-out
   lasts while evaluations keep arriving at more than 30 a minute. *)
C29_RateLockOut ==
    (last.op = "evaluate" /\ RecentCount(last.before, now) > 30)
        => /\ last.exc = "none" /\ last.decision = "BLOCK"
           /\ RecentCount(log, now) = RecentCount(last.before, now) + 1

(* C30: frame conditions.  evaluate and the guarded tool calls never
   create, modify or delete the intent lock file; set_intent_lock,
   load_intent_lock and verify_passphrase never touch the audit log;
   verify_chain and check_rate_limit (which reads through read_log) leave
   the audit log as it is, so verify_chain called twice in a row returns
   the same result. *)
C30_Frames ==
    [][ nops' = nops + 1 =>
          /\ last'.op \in {"evaluate", "guard", "enforcer"} => lockFile' = lockFile
          /\ last'.op \in {"set_intent_lock", "load_intent_lock", "verify_passphrase"}
                => log' = log
          /\ last'.op \in {"verify_chain", "check_rate_limit"} => log' = log
          /\ (last.op = "verify_chain" /\ last'.op = "verify_chain")
                => /\ last'.exc = last.exc /\ last'.valid = last.valid
                   /\ last'.count = last.count ]_vars

(* verify_chain has run on a log of entries, beside a lock file *)
C30_VerifiedBesideLock ==
    /\ last.op = "verify_chain" /\ last.valid /\ last.count = Len(log)
    /\ log # <<>> /\ log = last.before /\ lockFile # <<"absent">> /\ nops = MaxOps

====
